---- MODULE Spec2Model ----
(***************************************************************************)
(* Staged transition caching of JaCe: the LRU store `TranslationCache`,    *)
(* the registry `_get_cache`, the key derivation `_CachedCall.make_key`    *)
(* and the decorator `cached_translation` that wraps `lower()` and         *)
(* `compile()`.                                                            *)
(*                                                                         *)
(* Two specifications share this module:                                   *)
(*   SpecStore  one TranslationCache object driven directly through        *)
(*              has / get / add / _evict;                                  *)
(*   Spec       the stage pipeline: Wrapped --lower--> Lowered             *)
(*              --compile--> Compiled, through the decorator, the registry *)
(*              and clear_translation_cache().                             *)
(***************************************************************************)
EXTENDS Integers, Sequences, FiniteSets, TLC

(***************************************************************************)
(* Bounds of the model.                                                    *)
(***************************************************************************)
\* largest capacity a directly constructed store is given
MaxSize == 3
\* number of distinct keys offered to the directly driven store
MaxKeys == 4

\* number of Wrapped stages
MaxWrapped == 2
\* number of Lowered stages that lower() creates
MaxLowered == 2
\* number of Compiled stages that compile() creates
MaxCompiled == 2
\* number of store objects ever created by the registry
MaxStores == 2

\* Python's None
None == "None"

(***************************************************************************)
(* TranslationCache: `_memory` is an OrderedDict, modelled as a sequence   *)
(* of [key, val] entries without duplicate keys; the least recently used   *)
(* entry is first, the most recently used entry is last.                   *)
(***************************************************************************)
KeysOf(mem) == [i \in 1..Len(mem) |-> mem[i].key]

IndexOf(mem, key) == CHOOSE i \in 1..Len(mem) : mem[i].key = key

RemoveAt(mem, i) == SubSeq(mem, 1, i - 1) \o SubSeq(mem, i + 1, Len(mem))

\* variant: the entry is moved to the least recently used end
move_to_end_first(mem, key) ==
    LET i == IndexOf(mem, key) IN <<mem[i]>> \o RemoveAt(mem, i)

\* OrderedDict.move_to_end(key, last=True)
move_to_end(mem, key) ==
    LET i == IndexOf(mem, key) IN Append(RemoveAt(mem, i), mem[i])

\* OrderedDict.move_to_end(key, last=False)
\* variant: the entry stays where it is
move_to_front_stay(mem, key) == mem

move_to_front(mem, key) ==
    LET i == IndexOf(mem, key) IN <<mem[i]>> \o RemoveAt(mem, i)

\* OrderedDict.popitem(last=False)
popitem_first(mem) == Tail(mem)

\* variant: the assignment always makes a new entry
setitem_append(mem, key, res) == Append(mem, [key |-> key, val |-> res])

\* OrderedDict.__setitem__: an existing key keeps its position
setitem(mem, key, res) ==
    IF \E i \in 1..Len(mem) : mem[i].key = key
    THEN [i \in 1..Len(mem) |-> IF mem[i].key = key
                                THEN [key |-> key, val |-> res]
                                ELSE mem[i]]
    ELSE Append(mem, [key |-> key, val |-> res])

\* TranslationCache.has
has(mem, key) == \E i \in 1..Len(mem) : mem[i].key = key

\* variant: a membership test that counts as a use of the entry
has_call_touch(mem, key) ==
    [flag |-> has(mem, key), mem |-> IF has(mem, key) THEN move_to_end(mem, key) ELSE mem]

\* TranslationCache.has as a call: result [flag, mem], the answer of
\* `key in self._memory` and the entries afterwards
has_call(mem, key) == [flag |-> has(mem, key), mem |-> mem]

\* variant: a read of an absent key yields None, as dict.get does
get_quiet(mem, key) ==
    IF ~has(mem, key)
    THEN [err |-> None, mem |-> mem, val |-> None]
    ELSE LET m == move_to_end(mem, key)
         IN  [err |-> None, mem |-> m, val |-> m[IndexOf(m, key)].val]

\* variant: a read that does not promote the key
get_nopromote(mem, key) ==
    IF ~has(mem, key)
    THEN [err |-> "KeyError", mem |-> mem, val |-> None]
    ELSE [err |-> None, mem |-> mem, val |-> mem[IndexOf(mem, key)].val]

\* TranslationCache.get: result [err, mem, val]
get(mem, key) ==
    IF ~has(mem, key)
    THEN [err |-> "KeyError", mem |-> mem, val |-> None]
    ELSE LET m == move_to_end(mem, key)
         IN  [err |-> None, mem |-> m, val |-> m[IndexOf(m, key)].val]

\* TranslationCache._evict(None): result [mem, ret]
evict_oldest(mem) ==
    IF Len(mem) = 0
    THEN [mem |-> mem, ret |-> FALSE]
    ELSE [mem |-> popitem_first(mem), ret |-> TRUE]

\* TranslationCache._evict(key) for a key that is not None
evict_key(mem, key) ==
    IF ~has(mem, key)
    THEN [mem |-> mem, ret |-> FALSE]
    ELSE [mem |-> popitem_first(move_to_front(mem, key)), ret |-> TRUE]

\* variant: the loop condition is `>` instead of `>=`
RECURSIVE evict_while_over(_, _)
evict_while_over(mem, size) ==
    IF Len(mem) > size
    THEN evict_while_over(evict_oldest(mem).mem, size)
    ELSE mem

\* the loop `while len(self._memory) >= self._size: self._evict(None)`
RECURSIVE evict_while_full(_, _)
evict_while_full(mem, size) ==
    IF Len(mem) >= size
    THEN evict_while_full(evict_oldest(mem).mem, size)
    ELSE mem

\* variant: room is made before the key is looked up
add_evict_first(mem, size, key, res) ==
    LET m == evict_while_full(mem, size) IN
    IF has(m, key)
    THEN setitem(move_to_end(m, key), key, res)
    ELSE setitem(m, key, res)

\* TranslationCache.add: the memory afterwards
add(mem, size, key, res) ==
    IF has(mem, key)
    THEN setitem(move_to_end(mem, key), key, res)
    ELSE setitem(evict_while_full(mem, size), key, res)

(***************************************************************************)
(* Call arguments of lower().  A value is a record                         *)
(*   kind         "ndarray" | "jax_array" | "literal" | "scalar"           *)
(*   addressable  jax.Array.is_fully_addressable()                         *)
(*   shape, dtype, strides, device   the array's structure                 *)
(*   data         the array's contents                                     *)
(***************************************************************************)
Value(kind, addressable, shape, dtype, strides, device, data) ==
    [kind |-> kind, addressable |-> addressable, shape |-> shape,
     dtype |-> dtype, strides |-> strides, device |-> device, data |-> data]

\* NumPy arrays: two of the same structure with different contents and
\* one of another shape
A1 == Value("ndarray", TRUE, <<4, 3>>, "float64", "C", FALSE, 1)

A2 == Value("ndarray", TRUE, <<4, 3>>, "float64", "C", FALSE, 2)

B1 == Value("ndarray", TRUE, <<4, 4>>, "float64", "C", FALSE, 1)

\* a JAX array on this host, a distributed JAX array, a jax.core.Literal and
\* a Python scalar
J1 == Value("jax_array", TRUE, <<4, 3>>, "float64", "C", FALSE, 3)

X1 == Value("jax_array", FALSE, <<4, 3>>, "float64", "C", FALSE, 1)

L1 == Value("literal", TRUE, <<>>, "float64", "C", FALSE, 1)

S1 == Value("scalar", TRUE, <<>>, "float64", "C", FALSE, 1)

\* the positional argument lists offered to lower()
ArgLists ==
    { <<A1, B1>>, <<A2, B1>>, <<B1, A1>>, <<A1, L1>> }

\* the calls of lower(): the argument lists without keyword arguments and
\* one call with a keyword argument
LowerCalls ==
    {[args |-> a, nkwargs |-> 0] : a \in ArgLists} \cup {[args |-> <<A1, B1>>, nkwargs |-> 1]}

\* util.is_jax_array
is_jax_array(val) == val.kind = "jax_array"

\* util.is_array
is_array(val) == val.kind = "ndarray" \/ is_jax_array(val)

\* util.is_on_device
is_on_device(val) == val.device

\* util.is_fully_addressable
is_fully_addressable(val) == IF is_jax_array(val) THEN val.addressable ELSE TRUE

\* util.translate_dtype: the DaCe typeclass of a NumPy dtype
translate_dtype(dtype) ==
    CASE dtype = "float64" -> "dace.float64"
      [] dtype = "int64" -> "dace.int64"
      [] OTHER -> None

\* jax.Array.__array__(copy=False): the NumPy view on the host
as_numpy(val) == [val EXCEPT !.kind = "ndarray", !.device = FALSE]

NoFp == [shape |-> <<>>, dtype |-> None, strides |-> None, storage |-> None]

\* variant: the fingerprint records the contents in place of the strides
from_value_data(val) ==
    IF ~is_fully_addressable(val)
    THEN [err |-> "NotImplementedError", fp |-> NoFp]
    ELSE IF val.kind = "literal"
    THEN [err |-> "TypeError", fp |-> NoFp]
    ELSE IF is_array(val)
    THEN [err |-> None,
          fp |-> [shape |-> val.shape, dtype |-> translate_dtype(val.dtype),
                  strides |-> <<val.strides, val.data>>, storage |-> "CPU_Heap"]]
    ELSE [err |-> "AttributeError", fp |-> NoFp]

\* variant: the fingerprint records the rank in place of the shape
from_value_rank(val) ==
    IF ~is_fully_addressable(val)
    THEN [err |-> "NotImplementedError", fp |-> NoFp]
    ELSE IF val.kind = "literal"
    THEN [err |-> "TypeError", fp |-> NoFp]
    ELSE IF is_array(val)
    THEN [err |-> None,
          fp |-> [shape |-> <<Len(val.shape)>>, dtype |-> translate_dtype(val.dtype),
                  strides |-> val.strides, storage |-> "CPU_Heap"]]
    ELSE [err |-> "AttributeError", fp |-> NoFp]

\* variant: the addressability of the value is not looked at
from_value_nocheck(val) ==
    IF val.kind = "literal"
    THEN [err |-> "TypeError", fp |-> NoFp]
    ELSE IF is_array(val)
    THEN [err |-> None,
          fp |-> [shape |-> val.shape, dtype |-> translate_dtype(val.dtype),
                  strides |-> val.strides, storage |-> "CPU_Heap"]]
    ELSE [err |-> "AttributeError", fp |-> NoFp]

\* _AbstarctCallArgument.from_value: result [err, fp].  A value that is not
\* an array reaches `isinstance(val, jax_core.ShpedArray)`; jax.core has no
\* attribute of that name, so the attribute lookup raises AttributeError.
from_value(val) ==
    IF ~is_fully_addressable(val)
    THEN [err |-> "NotImplementedError", fp |-> NoFp]
    ELSE IF val.kind = "literal"
    THEN [err |-> "TypeError", fp |-> NoFp]
    ELSE IF is_array(val)
    THEN LET v == IF is_jax_array(val) THEN as_numpy(val) ELSE val
         IN  [err |-> None,
              fp |-> [shape |-> v.shape, dtype |-> translate_dtype(v.dtype),
                      strides |-> v.strides,
                      storage |-> IF is_on_device(v) THEN "GPU_Global" ELSE "CPU_Heap"]]
    ELSE [err |-> "AttributeError", fp |-> NoFp]

(***************************************************************************)
(* Compiler options: a dict is a sequence of <<name, value>> pairs with    *)
(* distinct names, in insertion order.  An argument of compile() is a      *)
(* record [tag, d]: tag "none" (None), "dict" (the dict d) or "other".     *)
(***************************************************************************)
\* position of an option name in the lexicographic order of the names
NameRank(name) ==
    CASE name = "auto_optimize" -> 1
      [] name = "simplify" -> 2
      [] OTHER -> 3

DictHas(d, name) == \E i \in 1..Len(d) : d[i][1] = name

DictGet(d, name) == d[CHOOSE i \in 1..Len(d) : d[i][1] = name][2]

\* variant: a key present in both keeps the value of the left operand
DictMerge_keep(a, b) ==
    a \o SelectSeq(b, LAMBDA p : ~DictHas(a, p[1]))

\* dict.__or__
DictMerge(a, b) ==
    [i \in 1..Len(a) |-> <<a[i][1], IF DictHas(b, a[i][1]) THEN DictGet(b, a[i][1]) ELSE a[i][2]>>]
        \o SelectSeq(b, LAMBDA p : ~DictHas(a, p[1]))

\* variant: the pairs are taken in the order of the mapping
SortedPairs_asgiven(d) == d

\* sorted(pairs, key=lambda X: X[0])
RECURSIVE SortedPairs(_)
SortedPairs(d) ==
    IF Len(d) = 0 THEN <<>>
    ELSE LET m == CHOOSE i \in 1..Len(d) :
                     \A j \in 1..Len(d) :
                        \/ NameRank(d[i][1]) < NameRank(d[j][1])
                        \/ (NameRank(d[i][1]) = NameRank(d[j][1]) /\ i <= j)
         IN  <<d[m]>> \o SortedPairs(RemoveAt(d, m))

\* JaceLowered.DEF_COMPILER_OPTIONS
DEF_COMPILER_OPTIONS == << <<"auto_optimize", TRUE>>, <<"simplify", TRUE>> >>

\* jace.optimization.DEFAULT_OPTIMIZATIONS
DEFAULT_OPTIMIZATIONS == << <<"auto_optimize", TRUE>>, <<"simplify", TRUE>> >>

CNone == [tag |-> "none", d |-> <<>>]

CDict(d) == [tag |-> "dict", d |-> d]

COther == [tag |-> "other", d |-> <<>>]

\* the positional argument lists offered to compile()
CompileArgLists ==
    { <<>>, <<CDict(<<>>)>>, <<COther>> }

\* the calls of compile()
CompileCalls ==
    {[args |-> a, nkwargs |-> 0] : a \in CompileArgLists} \cup {[args |-> <<>>, nkwargs |-> 1]}

(***************************************************************************)
(* _CachedCall: the key [fun, sdfg, sdfg_hash, fargs].  `sdfg` is the      *)
(* identity of the SDFG object (0 for None): SDFG defines neither __eq__   *)
(* nor __hash__.  `sdfg_hash` is the structural hash, modelled by the      *)
(* structure itself.                                                       *)
(***************************************************************************)
NoKey == [fun |-> None, sdfg |-> 0, sdfg_hash |-> None, fargs |-> <<>>]

\* SDFG.hash_sdfg
hash_sdfg(sdfg) == sdfg

\* tuple(_AbstarctCallArgument.from_value(x) for x in args): result
\* [err, fargs, n]; the first argument that fails ends the construction, n
\* is the number of arguments that from_value was called for
fingerprints(args) ==
    IF \E i \in 1..Len(args) : from_value(args[i]).err # None
    THEN LET f == CHOOSE i \in 1..Len(args) :
                        /\ from_value(args[i]).err # None
                        /\ \A j \in 1..(i - 1) : from_value(args[j]).err = None
         IN  [err |-> from_value(args[f]).err, fargs |-> <<>>, n |-> f]
    ELSE [err |-> None, fargs |-> [i \in 1..Len(args) |-> from_value(args[i]).fp],
          n |-> Len(args)]

\* variant: the keyword arguments are looked at after the positional
\* arguments have been fingerprinted
make_key_wrapped_late(stage, args, nkwargs) ==
    LET f == fingerprints(args) IN
    IF f.err # None
    THEN [err |-> f.err, key |-> NoKey, nfp |-> f.n]
    ELSE IF nkwargs # 0
    THEN [err |-> "NotImplementedError", key |-> NoKey, nfp |-> f.n]
    ELSE [err |-> None,
          key |-> [fun |-> stage.fun, sdfg |-> 0, sdfg_hash |-> None,
                   fargs |-> f.fargs],
          nfp |-> f.n]

\* _CachedCall.make_key for a JaceWrapped stage: result [err, key, nfp];
\* nfp is the number of fingerprinting operations (from_value, hash_sdfg)
\* that were started
make_key_wrapped(stage, args, nkwargs) ==
    IF nkwargs # 0
    THEN [err |-> "NotImplementedError", key |-> NoKey, nfp |-> 0]
    ELSE LET f == fingerprints(args) IN
         IF f.err # None
         THEN [err |-> f.err, key |-> NoKey, nfp |-> f.n]
         ELSE [err |-> None,
               key |-> [fun |-> stage.fun, sdfg |-> 0, sdfg_hash |-> None,
                        fargs |-> f.fargs],
               nfp |-> f.n]

\* variant: the key holds the names of the options without their values
make_key_lowered_names(stage, id, args, nkwargs) ==
    IF nkwargs # 0
    THEN [err |-> "ValueError", key |-> NoKey, nfp |-> 1]
    ELSE IF Len(args) >= 2
    THEN [err |-> "ValueError", key |-> NoKey, nfp |-> 1]
    ELSE LET comp_ops == IF Len(args) = 0 \/ args[1].tag = "none"
                         THEN CDict(DEF_COMPILER_OPTIONS)
                         ELSE args[1] IN
         IF comp_ops.tag # "dict"
         THEN [err |-> "AssertionError", key |-> NoKey, nfp |-> 1]
         ELSE [err |-> None,
               key |-> [fun |-> None, sdfg |-> id,
                        sdfg_hash |-> hash_sdfg(stage.sdfg),
                        fargs |-> [i \in 1..Len(comp_ops.d) |->
                                      <<SortedPairs(comp_ops.d)[i][1], TRUE>>]], nfp |-> 1]

\* variant: None stands for the empty mapping, only a missing argument
\* for the default options
make_key_lowered_none_empty(stage, id, args, nkwargs) ==
    IF nkwargs # 0
    THEN [err |-> "ValueError", key |-> NoKey, nfp |-> 1]
    ELSE IF Len(args) >= 2
    THEN [err |-> "ValueError", key |-> NoKey, nfp |-> 1]
    ELSE LET comp_ops == IF Len(args) = 0
                         THEN CDict(DEF_COMPILER_OPTIONS)
                         ELSE IF args[1].tag = "none" THEN CDict(<<>>)
                         ELSE args[1] IN
         IF comp_ops.tag # "dict"
         THEN [err |-> "AssertionError", key |-> NoKey, nfp |-> 1]
         ELSE [err |-> None,
               key |-> [fun |-> None, sdfg |-> id,
                        sdfg_hash |-> hash_sdfg(stage.sdfg),
                        fargs |-> SortedPairs(comp_ops.d)], nfp |-> 1]

\* variant: the key holds the structural hash that the SDFG had when
\* lower() built it
make_key_lowered_firsthash(stage, id, args, nkwargs) ==
    IF nkwargs # 0
    THEN [err |-> "ValueError", key |-> NoKey, nfp |-> 1]
    ELSE IF Len(args) >= 2
    THEN [err |-> "ValueError", key |-> NoKey, nfp |-> 1]
    ELSE LET comp_ops == IF Len(args) = 0 \/ args[1].tag = "none"
                         THEN CDict(DEF_COMPILER_OPTIONS)
                         ELSE args[1] IN
         IF comp_ops.tag # "dict"
         THEN [err |-> "AssertionError", key |-> NoKey, nfp |-> 1]
         ELSE [err |-> None,
               key |-> [fun |-> None, sdfg |-> id,
                        sdfg_hash |-> hash_sdfg([stage.sdfg EXCEPT !.edits = 0]),
                        fargs |-> SortedPairs(comp_ops.d)], nfp |-> 1]

\* _CachedCall.make_key for a JaceLowered stage with identity `id`: the
\* structural hash of the SDFG is computed first, then the call shape is
\* checked
make_key_lowered(stage, id, args, nkwargs) ==
    IF nkwargs # 0
    THEN [err |-> "ValueError", key |-> NoKey, nfp |-> 1]
    ELSE IF Len(args) >= 2
    THEN [err |-> "ValueError", key |-> NoKey, nfp |-> 1]
    ELSE LET comp_ops == IF Len(args) = 0 \/ args[1].tag = "none"
                         THEN CDict(DEF_COMPILER_OPTIONS)
                         ELSE args[1] IN
         IF comp_ops.tag # "dict"
         THEN [err |-> "AssertionError", key |-> NoKey, nfp |-> 1]
         ELSE [err |-> None,
               key |-> [fun |-> None, sdfg |-> id,
                        sdfg_hash |-> hash_sdfg(stage.sdfg),
                        fargs |-> SortedPairs(comp_ops.d)], nfp |-> 1]

(***************************************************************************)
(* cached_translation._action_wrapper after the cache has been resolved:   *)
(* `mem` and `size` are the store's slots, `k` the result of make_key and  *)
(* `body` the outcome [err, obj] that `action(self, ...)` has if it is     *)
(* invoked.  Result: the memory afterwards, the outcome of the call and    *)
(* whether the body ran.                                                   *)
(***************************************************************************)
\* variant: a failed key construction falls back to an uncached transition
_action_wrapper_uncached(mem, size, k, body) ==
    IF k.err # None
    THEN [mem |-> mem, outcome |-> "error", err |-> k.err, result |-> 0, ran |-> TRUE]
    ELSE IF has(mem, k.key)
    THEN LET g == get(mem, k.key) IN
         [mem |-> g.mem, outcome |-> "hit", err |-> None, result |-> g.val, ran |-> FALSE]
    ELSE IF body.err # None
    THEN [mem |-> mem, outcome |-> "error", err |-> body.err, result |-> 0, ran |-> TRUE]
    ELSE [mem |-> add(mem, size, k.key, body.obj), outcome |-> "miss",
          err |-> None, result |-> body.obj, ran |-> TRUE]

\* variant: the key is reserved in the store before the body runs
_action_wrapper_reserve(mem, size, k, body) ==
    IF k.err # None
    THEN [mem |-> mem, outcome |-> "error", err |-> k.err, result |-> 0, ran |-> FALSE]
    ELSE IF has(mem, k.key)
    THEN LET g == get(mem, k.key) IN
         [mem |-> g.mem, outcome |-> "hit", err |-> None, result |-> g.val, ran |-> FALSE]
    ELSE IF body.err # None
    THEN [mem |-> add(mem, size, k.key, 0), outcome |-> "error",
          err |-> body.err, result |-> 0, ran |-> TRUE]
    ELSE [mem |-> add(mem, size, k.key, body.obj), outcome |-> "miss",
          err |-> None, result |-> body.obj, ran |-> TRUE]

\* variant: the result of the body is returned without being stored
_action_wrapper_nostore(mem, size, k, body) ==
    IF k.err # None
    THEN [mem |-> mem, outcome |-> "error", err |-> k.err, result |-> 0, ran |-> FALSE]
    ELSE IF has(mem, k.key)
    THEN LET g == get(mem, k.key) IN
         [mem |-> g.mem, outcome |-> "hit", err |-> None, result |-> g.val, ran |-> FALSE]
    ELSE IF body.err # None
    THEN [mem |-> mem, outcome |-> "error", err |-> body.err, result |-> 0, ran |-> TRUE]
    ELSE [mem |-> mem, outcome |-> "miss",
          err |-> None, result |-> body.obj, ran |-> TRUE]

\* variant: the store is read without asking has() first
_action_wrapper_getfirst(mem, size, k, body) ==
    IF k.err # None
    THEN [mem |-> mem, outcome |-> "error", err |-> k.err, result |-> 0, ran |-> FALSE]
    ELSE LET g == get(mem, k.key) IN
         IF g.err # None
         THEN [mem |-> g.mem, outcome |-> "error", err |-> g.err, result |-> 0, ran |-> FALSE]
         ELSE [mem |-> g.mem, outcome |-> "hit", err |-> None, result |-> g.val, ran |-> FALSE]

_action_wrapper(mem, size, k, body) ==
    IF k.err # None
    THEN [mem |-> mem, outcome |-> "error", err |-> k.err, result |-> 0, ran |-> FALSE]
    ELSE IF has(mem, k.key)
    THEN LET g == get(mem, k.key) IN
         IF g.err # None
         THEN [mem |-> g.mem, outcome |-> "error", err |-> g.err, result |-> 0, ran |-> FALSE]
         ELSE [mem |-> g.mem, outcome |-> "hit", err |-> None, result |-> g.val, ran |-> FALSE]
    ELSE IF body.err # None
    THEN [mem |-> mem, outcome |-> "error", err |-> body.err, result |-> 0, ran |-> TRUE]
    ELSE [mem |-> add(mem, size, k.key, body.obj), outcome |-> "miss",
          err |-> None, result |-> body.obj, ran |-> TRUE]

(***************************************************************************)
(* State.                                                                  *)
(*   _memory, _size  the slots of the directly driven TranslationCache     *)
(*   sret            outcome of the last operation on that store           *)
(*   lru             observer: the present keys ordered by the time of     *)
(*                   their last insertion or successful access             *)
(*   scen            observer: progress through the sequence               *)
(*                   add A, add B, add C, get B, add D on a store of       *)
(*                   capacity 2 (-1: the run has left that sequence)       *)
(*   ins             observer: while every operation so far was an add of  *)
(*                   a key not added before, the keys in insertion order   *)
(*                                                                         *)
(*   caches          `_get_cache._caches`: stage kind -> store (0: absent) *)
(*   stores          every TranslationCache the registry has created, by   *)
(*                   identity; a store lives on while a stage refers to it *)
(*   wrapped         the JaceWrapped stages [fun, primitive_translators,   *)
(*                   jit_options, cache, pt_alias, jo_alias]; cache is the *)
(*                   `_cache` attribute (0: not attached); pt_alias and    *)
(*                   jo_alias tell whether the mapping of the stage is an  *)
(*                   object that someone else holds: "arg", the mapping    *)
(*                   passed to the constructor, or "registry"              *)
(*   lowered         the JaceLowered stages [sdfg, cache]                  *)
(*   compiled        the JaceCompiled stages [csdfg, by]                   *)
(*   active_options  `_JACELOWERED_ACTIVE_COMPILE_OPTIONS`                 *)
(*   handed          the option mapping that the last call of get/update/  *)
(*                   finalize returned and that its caller still holds     *)
(*   ret             the last call (or reset), its outcome, whether a body *)
(*                   of a transition was invoked and how many              *)
(*                   fingerprinting operations the key construction began  *)
(*                                                                         *)
(*   callers         the callers that are inside the wrapper of a cached   *)
(*                   transition on the directly driven store: the position *)
(*                   of each and the values it holds                       *)
(*   _PRIMITIVE_TRANSLATORS_REGISTRY                                       *)
(*                   the content of the global registry of primitive       *)
(*                   translators, primitive name -> translator             *)
(*   ctor_held       the mappings that a caller passed to the constructor  *)
(*                   of the Wrapped stage `stage` and still holds (a       *)
(*                   mapping with id "registry" is the registry, and its   *)
(*                   items are those of the registry), and in `at_call`    *)
(*                   the items they had when the constructor was called    *)
(*   pt_held         the translator mappings a caller holds, as objects    *)
(*                   [id, d]: `new`, the one it passed last, and `ret`,    *)
(*                   the one it was returned last; the id "registry"       *)
(*                   marks an object that is the registry itself           *)
(***************************************************************************)
VARIABLES _memory, _size, sret, lru, scen, ins,
          caches, stores, wrapped, lowered, compiled, active_options,
          handed, ret, callers, _PRIMITIVE_TRANSLATORS_REGISTRY, pt_held, ctor_held

storeVars == <<_memory, _size, sret, lru, scen, ins>>

extVars == <<callers, _PRIMITIVE_TRANSLATORS_REGISTRY, pt_held, ctor_held>>

pipeVars == <<caches, stores, wrapped, lowered, compiled, active_options, handed, ret>>

vars == <<_memory, _size, sret, lru, scen, ins,
          caches, stores, wrapped, lowered, compiled, active_options, handed, ret,
          callers, _PRIMITIVE_TRANSLATORS_REGISTRY, pt_held, ctor_held>>

StageKinds == {"JaceWrapped", "JaceLowered"}

\* a mapping object that its creator holds
Own(d) == [id |-> "own", d |-> d]

\* variant: the stage keeps the mappings it was passed
JaceWrapped_alias(fun, primitive_translators, jit_options) ==
    [fun |-> fun, primitive_translators |-> primitive_translators.d,
     jit_options |-> jit_options.d, cache |-> 0,
     pt_alias |-> IF primitive_translators.id = "registry" THEN "registry" ELSE "arg",
     jo_alias |-> "arg"]

\* JaceWrapped.__init__: the stage holds new dicts with the items of the
\* mappings it was passed, and has no `_cache` attribute yet
JaceWrapped(fun, primitive_translators, jit_options) ==
    [fun |-> fun, primitive_translators |-> primitive_translators.d,
     jit_options |-> jit_options.d, cache |-> 0,
     pt_alias |-> None, jo_alias |-> None]

\* the Wrapped stages of the model: the first two wrap the same callable
\* without jit options, the third wraps another callable with a jit option
WrappedFun(i) == IF i <= 2 THEN "f" ELSE "g"

WrappedJitOptions(i) == IF i = 3 THEN << <<"backend", "gpu">> >> ELSE <<>>

NoRet == [op |-> "none", stage |-> 0, args |-> <<>>, nkwargs |-> 0,
          outcome |-> "none", ran |-> FALSE, result |-> 0, err |-> None,
          kind |-> None, size |-> 0, nfp |-> 0, tracing |-> FALSE]

\* the callers of the wrapper
Callers == {1, 2}

\* a caller outside of the wrapper that has not called yet
NoCaller == [pc |-> "idle", next_stage |-> None, result |-> None, err |-> None,
             ran |-> FALSE]

\* no mapping of a constructor call is held by a caller
NoCtor == [stage |-> 0, primitive_translators |-> [id |-> None, d |-> <<>>],
           jit_options |-> [id |-> None, d |-> <<>>],
           at_call |-> [primitive_translators |-> <<>>, jit_options |-> <<>>]]

\* no option mapping is held by a caller
NoMapping == [id |-> None, d |-> <<>>]

InitPipe ==
    /\ caches = [k \in StageKinds |-> 0]
    /\ stores = <<>>
    /\ wrapped = [i \in 1..MaxWrapped |->
                     JaceWrapped(WrappedFun(i), Own(<<>>), Own(WrappedJitOptions(i)))]
    /\ lowered = <<>>
    /\ compiled = <<>>
    /\ active_options = DEFAULT_OPTIMIZATIONS
    /\ handed = NoMapping
    /\ ret = NoRet
    /\ callers = [t \in Callers |-> NoCaller]
    /\ _PRIMITIVE_TRANSLATORS_REGISTRY = <<>>
    /\ pt_held = [new |-> NoMapping, ret |-> NoMapping]
    /\ ctor_held = NoCtor

(***************************************************************************)
(* SpecStore: one TranslationCache, driven directly.                       *)
(***************************************************************************)
StoreKeys == SubSeq(<<"A", "B", "C", "D", "E", "F">>, 1, MaxKeys)

StoreKeySet == {StoreKeys[i] : i \in 1..Len(StoreKeys)}

Artifacts == {"v1", "v2"}

NoSret == [op |-> "none", key |-> None, val |-> None, flag |-> FALSE, err |-> None,
           size |-> 0]

\* the keys of `order` that are still present in `mem`, in the same order
Present(order, mem) == SelectSeq(order, LAMBDA k : has(mem, k))

\* `key` becomes the most recent key of `order`
Touch(order, key) == Append(SelectSeq(order, LAMBDA k : k # key), key)

\* the sequence add A, add B, add C, get B, add D
ScenOps == << <<"add", "A">>, <<"add", "B">>, <<"add", "C">>, <<"get", "B">>, <<"add", "D">> >>

ScenNext(op, key) ==
    IF scen >= 0 /\ scen < Len(ScenOps) /\ ScenOps[scen + 1] = <<op, key>>
    THEN scen + 1
    ELSE -1

InsOff == [pure |-> FALSE, keys |-> <<>>]

InsNext(key) ==
    IF ins.pure /\ \A i \in 1..Len(ins.keys) : ins.keys[i] # key
    THEN [pure |-> TRUE, keys |-> Append(ins.keys, key)]
    ELSE InsOff

\* TranslationCache.__init__(size) with size > 0
InitStore ==
    /\ _size \in 1..MaxSize
    /\ _memory = <<>>
    /\ sret = NoSret
    /\ lru = <<>>
    /\ scen = IF _size = 2 THEN 0 ELSE -1
    /\ ins = [pure |-> TRUE, keys |-> <<>>]
    /\ InitPipe

Has(key) ==
    LET r == has_call(_memory, key) IN
    /\ _memory' = r.mem
    /\ sret' = [op |-> "has", key |-> key, val |-> None,
                flag |-> r.flag, err |-> None, size |-> 0]
    /\ scen' = ScenNext("has", key)
    /\ ins' = InsOff
    /\ UNCHANGED <<_size, lru>>
    /\ UNCHANGED <<pipeVars, extVars>>

Get(key) ==
    LET r == get(_memory, key) IN
    /\ _memory' = r.mem
    /\ sret' = [op |-> "get", key |-> key, val |-> r.val,
                flag |-> FALSE, err |-> r.err, size |-> 0]
    /\ lru' = IF r.err = None THEN Touch(lru, key) ELSE lru
    /\ scen' = ScenNext("get", key)
    /\ ins' = InsOff
    /\ UNCHANGED _size
    /\ UNCHANGED <<pipeVars, extVars>>

\* the flag of the outcome is an observer: whether the key was present
Add(key, res) ==
    /\ _memory' = add(_memory, _size, key, res)
    /\ sret' = [op |-> "add", key |-> key, val |-> res,
                flag |-> has(_memory, key), err |-> None, size |-> 0]
    /\ lru' = Present(Touch(lru, key), _memory')
    /\ scen' = ScenNext("add", key)
    /\ ins' = InsNext(key)
    /\ UNCHANGED _size
    /\ UNCHANGED <<pipeVars, extVars>>

Evict(key) ==
    LET r == evict_key(_memory, key) IN
    /\ _memory' = r.mem
    /\ sret' = [op |-> "_evict", key |-> key, val |-> None,
                flag |-> r.ret, err |-> None, size |-> 0]
    /\ lru' = Present(lru, _memory')
    /\ scen' = ScenNext("_evict", key)
    /\ ins' = InsOff
    /\ UNCHANGED _size
    /\ UNCHANGED <<pipeVars, extVars>>

EvictNone ==
    LET r == evict_oldest(_memory) IN
    /\ _memory' = r.mem
    /\ sret' = [op |-> "_evict", key |-> None, val |-> None,
                flag |-> r.ret, err |-> None, size |-> 0]
    /\ lru' = Present(lru, _memory')
    /\ scen' = ScenNext("_evict", None)
    /\ ins' = InsOff
    /\ UNCHANGED _size
    /\ UNCHANGED <<pipeVars, extVars>>

NextStore ==
    \/ \E key \in StoreKeySet : Has(key)
    \/ \E key \in StoreKeySet : Get(key)
    \/ \E key \in StoreKeySet, res \in Artifacts : Add(key, res)
    \/ \E key \in StoreKeySet : Evict(key)
    \/ EvictNone

SpecStore == InitStore /\ [][NextStore]_vars

(***************************************************************************)
(* SpecNew: the store with its construction.  The variables of the store   *)
(* describe the store that was constructed last; before the first          *)
(* successful construction there is none (_size = 0).                      *)
(***************************************************************************)
\* the sizes passed to the constructor
NewSizes == {-1, 0} \cup (1..MaxSize)

\* variant: only negative sizes are rejected
TranslationCache_nonneg(size) ==
    IF size < 0
    THEN [err |-> "ValueError", memory |-> <<>>, size |-> 0]
    ELSE [err |-> None, memory |-> <<>>, size |-> size]

\* TranslationCache.__init__(size): result [err, memory, size]
TranslationCache(size) ==
    IF size <= 0
    THEN [err |-> "ValueError", memory |-> <<>>, size |-> 0]
    ELSE [err |-> None, memory |-> <<>>, size |-> size]

InitNew ==
    /\ _size = 0
    /\ _memory = <<>>
    /\ sret = NoSret
    /\ lru = <<>>
    /\ scen = -1
    /\ ins = InsOff
    /\ InitPipe

\* TranslationCache(size); the flag of the outcome tells whether an object
\* was constructed
New(size) ==
    LET r == TranslationCache(size) IN
    /\ sret' = [op |-> "__init__", key |-> None, val |-> None,
                flag |-> (r.err = None), err |-> r.err, size |-> size]
    /\ IF r.err = None
       THEN /\ _memory' = r.memory
            /\ _size' = r.size
            /\ lru' = <<>>
            /\ scen' = IF r.size = 2 THEN 0 ELSE -1
            /\ ins' = [pure |-> TRUE, keys |-> <<>>]
       ELSE UNCHANGED <<_memory, _size, lru, scen, ins>>
    /\ UNCHANGED <<pipeVars, extVars>>

NextNew ==
    \/ \E size \in NewSizes : New(size)
    \/ _size > 0 /\ NextStore

SpecNew == InitNew /\ [][NextNew]_vars

(***************************************************************************)
(* Spec: the stage pipeline.                                               *)
(***************************************************************************)
\* the capacity `_get_cache` gives a store when the caller passes none
DefaultSize == 128

\* what the collaborators behind a transition body do in one call
Collaborators == {"ok", "fails"}

\* variant: a request with another size replaces the store of the kind
_get_cache_resize(c, s, kind, size) ==
    IF c[kind] = 0 \/ s[c[kind]].size # size
    THEN [caches |-> [c EXCEPT ![kind] = Len(s) + 1],
          stores |-> Append(s, [memory |-> <<>>, size |-> size]),
          id |-> Len(s) + 1]
    ELSE [caches |-> c, stores |-> s, id |-> c[kind]]

\* variant: the registry holds one store for the stages of every kind
_get_cache_shared(c, s, kind, size) ==
    IF \A k \in DOMAIN c : c[k] = 0
    THEN [caches |-> [k \in DOMAIN c |-> Len(s) + 1],
          stores |-> Append(s, [memory |-> <<>>, size |-> size]),
          id |-> Len(s) + 1]
    ELSE [caches |-> c, stores |-> s, id |-> c[kind]]

\* _get_cache(self, size) for a stage of kind `kind`, on the registry `c`
\* and the stores `s`: result [caches, stores, id], the registry and the
\* stores afterwards and the store returned
_get_cache_of(c, s, kind, size) ==
    IF c[kind] = 0
    THEN [caches |-> [c EXCEPT ![kind] = Len(s) + 1],
          stores |-> Append(s, [memory |-> <<>>, size |-> size]),
          id |-> Len(s) + 1]
    ELSE [caches |-> c, stores |-> s, id |-> c[kind]]

\* _get_cache in the current state
_get_cache(kind, size) == _get_cache_of(caches, stores, kind, size)

\* `if hasattr(self, "_cache") ... else ...` of the wrapper, on the
\* registry `c` and the stores `s`
resolve_cache_of(c, s, kind, attached) ==
    IF attached # 0
    THEN [caches |-> c, stores |-> s, id |-> attached]
    ELSE _get_cache_of(c, s, kind, DefaultSize)

resolve_cache(kind, attached) == resolve_cache_of(caches, stores, kind, attached)

(***************************************************************************)
(* Option mappings are objects [id, d]: `d` is the content, `id` tells     *)
(* the global object from an object created by the call.                   *)
(***************************************************************************)
\* the object bound to _JACELOWERED_ACTIVE_COMPILE_OPTIONS
ActiveOptions == [id |-> "global", d |-> active_options]

\* dict.copy: a new object with the same content
dict_copy(o) == [id |-> "new", d |-> o.d]

\* dict.__or__: a new object
dict_or(a, b) == [id |-> "new", d |-> DictMerge(a.d, b.d)]

\* `compiler_options or {}`
or_empty(compiler_options) ==
    IF compiler_options.tag = "dict" /\ Len(compiler_options.d) > 0
    THEN [id |-> "arg", d |-> compiler_options.d]
    ELSE [id |-> "new", d |-> <<>>]

\* variant: the live global object is handed out
get_active_compiler_options_live == ActiveOptions

\* get_active_compiler_options
get_active_compiler_options == dict_copy(ActiveOptions)

\* finalize_compilation_options
finalize_compilation_options(compiler_options) ==
    dict_or(get_active_compiler_options, or_empty(compiler_options))

(***************************************************************************)
(* The SDFG objects a compile body works on: `self` is the object held by  *)
(* the Lowered stage, `copy` the object that copy.deepcopy creates.        *)
(***************************************************************************)
NotOptimized == [done |-> FALSE, options |-> <<>>]

\* variant: no copy is made, the stage's own object is optimized
deepcopy_alias(ref) == ref

\* copy.deepcopy: the reference to the new object
deepcopy(ref) == "copy"

\* optimization.jace_optimize: optimizes the object behind `ref` in place
jace_optimize(env, ref, options) ==
    [env EXCEPT ![ref].opt = [done |-> TRUE, options |-> options]]

\* the body of JaceWrapped.lower: result [err, traced, obj].  make_jaxpr
\* rejects non-empty trace options before the function is traced; the
\* translation of the Jaxpr, with the primitive translators of the stage,
\* can fail after it.
lower_body(w, args, collab) ==
    IF Len(wrapped[w].jit_options) # 0
    THEN [err |-> "NotImplementedError", traced |-> FALSE, obj |-> None]
    ELSE IF collab = "fails"
    THEN [err |-> "TranslationError", traced |-> TRUE, obj |-> None]
    ELSE [err |-> None, traced |-> TRUE,
          obj |-> [sdfg |-> [fun |-> wrapped[w].fun, fargs |-> fingerprints(args).fargs,
                             translators |-> wrapped[w].primitive_translators,
                             opt |-> NotOptimized, edits |-> 0],
                   cache |-> 0]]

\* the body of JaceLowered.compile on a stage that holds `sdfg`: result
\* [err, obj, sdfg], `sdfg` being the object of the stage afterwards; the
\* field `by` of the new stage is an observer, the arguments of the call
\* that created the stage.  The
\* SDFG is deep-copied, the copy is optimized in place with the finalized
\* options and compiled; the collaborators can fail after the copy.
compile_of(sdfg, args, collab) ==
    LET tsdfg   == deepcopy("self")
        options == finalize_compilation_options(IF Len(args) = 0 THEN CNone ELSE args[1]).d
        env     == jace_optimize([self |-> sdfg, copy |-> sdfg], tsdfg, options)
    IN
    IF collab = "fails"
    THEN [err |-> "CompilationError", obj |-> None, sdfg |-> env.self]
    ELSE [err |-> None,
          obj |-> [csdfg |-> [sdfg |-> env[tsdfg], options |-> options], by |-> args],
          sdfg |-> env.self]

compile_body(l, args, collab) == compile_of(lowered[l].sdfg, args, collab)

\* JaceWrapped.lower through cached_translation
Lower(w, args, nkwargs, collab) ==
    LET gc   == resolve_cache("JaceWrapped", wrapped[w].cache)
        st   == gc.stores[gc.id]
        k    == make_key_wrapped(wrapped[w], args, nkwargs)
        b    == lower_body(w, args, collab)
        r    == _action_wrapper(st.memory, st.size, k,
                                [err |-> b.err, obj |-> Len(lowered) + 1])
    IN
    /\ Len(gc.stores) <= MaxStores
    /\ r.outcome = "miss" => Len(lowered) < MaxLowered
    /\ collab = "fails" => r.ran
    /\ caches' = gc.caches
    /\ stores' = [gc.stores EXCEPT ![gc.id].memory = r.mem]
    /\ wrapped' = [wrapped EXCEPT ![w].cache = gc.id]
    /\ lowered' = IF r.outcome = "miss" THEN Append(lowered, b.obj) ELSE lowered
    /\ ret' = [op |-> "lower", stage |-> w, args |-> args, nkwargs |-> nkwargs,
               outcome |-> r.outcome, ran |-> r.ran, result |-> r.result, err |-> r.err,
               kind |-> "JaceWrapped", size |-> 0, nfp |-> k.nfp, tracing |-> FALSE]
    /\ UNCHANGED <<compiled, active_options, handed>>
    /\ UNCHANGED <<storeVars, extVars>>

\* JaceLowered.compile through cached_translation
Compile(l, args, nkwargs, collab) ==
    LET gc   == resolve_cache("JaceLowered", lowered[l].cache)
        st   == gc.stores[gc.id]
        k    == make_key_lowered(lowered[l], l, args, nkwargs)
        b    == compile_body(l, args, collab)
        r    == _action_wrapper(st.memory, st.size, k,
                                [err |-> b.err, obj |-> Len(compiled) + 1])
    IN
    /\ Len(gc.stores) <= MaxStores
    /\ r.outcome = "miss" => Len(compiled) < MaxCompiled
    /\ collab = "fails" => r.ran
    /\ caches' = gc.caches
    /\ stores' = [gc.stores EXCEPT ![gc.id].memory = r.mem]
    /\ lowered' = [lowered EXCEPT ![l].cache = gc.id,
                                   ![l].sdfg = IF r.ran THEN b.sdfg ELSE @]
    /\ compiled' = IF r.outcome = "miss" THEN Append(compiled, b.obj) ELSE compiled
    /\ ret' = [op |-> "compile", stage |-> l, args |-> args, nkwargs |-> nkwargs,
               outcome |-> r.outcome, ran |-> r.ran, result |-> r.result, err |-> r.err,
               kind |-> "JaceLowered", size |-> 0, nfp |-> k.nfp, tracing |-> FALSE]
    /\ UNCHANGED <<wrapped, active_options, handed>>
    /\ UNCHANGED <<storeVars, extVars>>

\* clear_translation_cache: `_caches.clear()` empties the registry; the
\* stores themselves are untouched
ClearTranslationCache ==
    /\ caches' = [k \in StageKinds |-> 0]
    /\ ret' = [NoRet EXCEPT !.op = "clear"]
    /\ UNCHANGED <<stores, wrapped, lowered, compiled, active_options, handed>>
    /\ UNCHANGED <<storeVars, extVars>>

Init ==
    /\ InitPipe
    /\ _size = 1
    /\ _memory = <<>>
    /\ sret = NoSret
    /\ lru = <<>>
    /\ scen = -1
    /\ ins = InsOff

Next ==
    \/ \E w \in 1..Len(wrapped), c \in LowerCalls, collab \in Collaborators :
          Lower(w, c.args, c.nkwargs, collab)
    \/ \E l \in 1..Len(lowered), c \in CompileCalls, collab \in Collaborators :
          Compile(l, c.args, c.nkwargs, collab)
    \/ ClearTranslationCache

Spec == Init /\ [][Next]_vars

(***************************************************************************)
(* SpecCall: the pipeline with JaceWrapped.__call__ and with direct        *)
(* requests to the registry.                                               *)
(***************************************************************************)
\* the argument lists offered to lower() and to __call__
CallArgLists == { <<A1, B1>>, <<A2, B1>> }

\* the sizes passed in direct requests to the registry
RequestSizes == { DefaultSize, 2 * DefaultSize }

\* util.is_tracing_ongoing: whether the call happens inside a JAX trace
is_tracing_ongoing(tracing) == tracing

\* variant: __call__ never forwards
call_forwards_never(tracing) == FALSE

\* the test at the head of JaceWrapped.__call__: the call is forwarded to
\* the wrapped function when a trace is going on
call_forwards(tracing) == is_tracing_ongoing(tracing)

\* variant: __call__ compiles with an explicit empty option mapping
call_compile_args_empty(args) == << CDict(<<>>) >>

\* the arguments that __call__ passes to compile(): none
call_compile_args(args) == <<>>

\* _get_cache(self, size), requested directly for a stage of kind `kind`
GetCache(kind, size) ==
    LET gc == _get_cache(kind, size) IN
    /\ kind = "JaceLowered" => Len(lowered) >= 1
    /\ Len(gc.stores) <= MaxStores
    /\ caches' = gc.caches
    /\ stores' = gc.stores
    /\ ret' = [NoRet EXCEPT !.op = "_get_cache", !.outcome = "returned",
                            !.result = gc.id, !.kind = kind, !.size = size]
    /\ UNCHANGED <<wrapped, lowered, compiled, active_options, handed>>
    /\ UNCHANGED <<storeVars, extVars>>

\* JaceWrapped.__call__: inside a trace the call is forwarded to the wrapped
\* function; otherwise lower(*args), then compile() on the result, then the
\* call of the Compiled stage.  A failing transition ends the call.
Call(w, args, tracing, collab1, collab2) ==
    LET gc1      == resolve_cache("JaceWrapped", wrapped[w].cache)
        st1      == gc1.stores[gc1.id]
        k1       == make_key_wrapped(wrapped[w], args, 0)
        b1       == lower_body(w, args, collab1)
        r1       == _action_wrapper(st1.memory, st1.size, k1,
                                    [err |-> b1.err, obj |-> Len(lowered) + 1])
        stores1  == [gc1.stores EXCEPT ![gc1.id].memory = r1.mem]
        lowered1 == IF r1.outcome = "miss" THEN Append(lowered, b1.obj) ELSE lowered
        l        == r1.result
        cargs    == call_compile_args(args)
        gc2      == resolve_cache_of(gc1.caches, stores1, "JaceLowered", lowered1[l].cache)
        st2      == gc2.stores[gc2.id]
        k2       == make_key_lowered(lowered1[l], l, cargs, 0)
        b2       == compile_of(lowered1[l].sdfg, cargs, collab2)
        r2       == _action_wrapper(st2.memory, st2.size, k2,
                                    [err |-> b2.err, obj |-> Len(compiled) + 1])
        call     == [NoRet EXCEPT !.op = "call", !.stage = w, !.args = args,
                                  !.kind = "JaceWrapped", !.tracing = tracing]
    IN
    IF call_forwards(tracing)
    THEN /\ collab1 = "ok" /\ collab2 = "ok"
         /\ ret' = [call EXCEPT !.outcome = "forwarded"]
         /\ UNCHANGED <<caches, stores, wrapped, lowered, compiled, active_options, handed>>
         /\ UNCHANGED <<storeVars, extVars>>
    ELSE IF r1.outcome = "error"
    THEN /\ Len(gc1.stores) <= MaxStores
         /\ collab1 = "fails" => r1.ran
         /\ collab2 = "ok"
         /\ caches' = gc1.caches
         /\ stores' = stores1
         /\ wrapped' = [wrapped EXCEPT ![w].cache = gc1.id]
         /\ ret' = [call EXCEPT !.outcome = "error", !.err = r1.err, !.ran = r1.ran]
         /\ UNCHANGED <<lowered, compiled, active_options, handed>>
         /\ UNCHANGED <<storeVars, extVars>>
    ELSE /\ Len(gc2.stores) <= MaxStores
         /\ r1.outcome = "miss" => Len(lowered) < MaxLowered
         /\ r2.outcome = "miss" => Len(compiled) < MaxCompiled
         /\ collab1 = "ok"
         /\ collab2 = "fails" => r2.ran
         /\ caches' = gc2.caches
         /\ stores' = [gc2.stores EXCEPT ![gc2.id].memory = r2.mem]
         /\ wrapped' = [wrapped EXCEPT ![w].cache = gc1.id]
         /\ lowered' = [lowered1 EXCEPT ![l].cache = gc2.id,
                                         ![l].sdfg = IF r2.ran THEN b2.sdfg ELSE @]
         /\ compiled' = IF r2.outcome = "miss" THEN Append(compiled, b2.obj) ELSE compiled
         /\ ret' = [call EXCEPT !.outcome = IF r2.outcome = "error" THEN "error"
                                                                     ELSE "executed",
                                 !.err = r2.err, !.result = r2.result,
                                 !.ran = r1.ran \/ r2.ran]
         /\ UNCHANGED <<active_options, handed>>
         /\ UNCHANGED <<storeVars, extVars>>

NextCall ==
    \/ \E w \in 1..Len(wrapped), args \in CallArgLists : Lower(w, args, 0, "ok")
    \/ \E l \in 1..Len(lowered) : Compile(l, <<>>, 0, "ok")
    \/ \E w \in 1..Len(wrapped), args \in CallArgLists, tracing \in BOOLEAN,
          collab1 \in Collaborators, collab2 \in Collaborators :
          Call(w, args, tracing, collab1, collab2)
    \/ \E kind \in StageKinds, size \in RequestSizes : GetCache(kind, size)
    \/ ClearTranslationCache

SpecCall == Init /\ [][NextCall]_vars

(***************************************************************************)
(* SpecOptions: the global option set and the functions that manage it.    *)
(***************************************************************************)
\* the option mappings passed to update_active_compiler_options
UpdateDicts ==
    { << <<"simplify", FALSE>> >>, << <<"validate", TRUE>> >>,
      << <<"validate", FALSE>>, <<"auto_optimize", FALSE>> >> }

\* the arguments passed to finalize_compilation_options
FinalizeArgs ==
    { CNone, CDict(<<>>), CDict(<< <<"simplify", FALSE>> >>),
      CDict(<< <<"validate", FALSE>>, <<"auto_optimize", FALSE>> >>) }

\* the option names that occur
OptionNames == {"auto_optimize", "simplify", "validate"}

\* d[name] = value on a dict
DictSet(d, name, value) ==
    IF DictHas(d, name)
    THEN [i \in 1..Len(d) |-> IF d[i][1] = name THEN <<name, value>> ELSE d[i]]
    ELSE Append(d, <<name, value>>)

\* update_active_compiler_options: the previous options are copied, the
\* global object is updated in place, the copy is returned
UpdateActiveCompilerOptions(new_active_options) ==
    /\ handed' = dict_copy(ActiveOptions)
    /\ active_options' = DictMerge(active_options, new_active_options)
    /\ ret' = [NoRet EXCEPT !.op = "update", !.args = << CDict(new_active_options) >>,
                            !.outcome = "returned"]
    /\ UNCHANGED <<caches, stores, wrapped, lowered, compiled>>
    /\ UNCHANGED <<storeVars, extVars>>

\* get_active_compiler_options(); a mapping that is handed out and is the
\* global object keeps the global set as its content
GetActiveCompilerOptions ==
    /\ handed' = get_active_compiler_options
    /\ ret' = [NoRet EXCEPT !.op = "get_active", !.outcome = "returned"]
    /\ UNCHANGED <<caches, stores, wrapped, lowered, compiled, active_options>>
    /\ UNCHANGED <<storeVars, extVars>>

\* finalize_compilation_options(compiler_options)
FinalizeCompilationOptions(compiler_options) ==
    /\ handed' = finalize_compilation_options(compiler_options)
    /\ ret' = [NoRet EXCEPT !.op = "finalize", !.args = << compiler_options >>,
                            !.outcome = "returned"]
    /\ UNCHANGED <<caches, stores, wrapped, lowered, compiled, active_options>>
    /\ UNCHANGED <<storeVars, extVars>>

\* the caller assigns to an item of the mapping it was handed: the object
\* changes, and with it the global set if that is the same object
MutateReturned(name, value) ==
    /\ handed.id # None
    /\ handed' = [handed EXCEPT !.d = DictSet(handed.d, name, value)]
    /\ active_options' = IF handed.id = "global" THEN handed'.d ELSE active_options
    /\ ret' = [NoRet EXCEPT !.op = "mutate", !.outcome = "returned"]
    /\ UNCHANGED <<caches, stores, wrapped, lowered, compiled>>
    /\ UNCHANGED <<storeVars, extVars>>

NextOptions ==
    \/ \E d \in UpdateDicts : UpdateActiveCompilerOptions(d)
    \/ GetActiveCompilerOptions
    \/ \E a \in FinalizeArgs : FinalizeCompilationOptions(a)
    \/ \E name \in OptionNames, value \in BOOLEAN : MutateReturned(name, value)

SpecOptions == Init /\ [][NextOptions]_vars

(***************************************************************************)
(* SpecCompile: compile() with option mappings.                            *)
(***************************************************************************)
\* the option mappings passed to compile()
OptionDicts ==
    { <<>>, DEF_COMPILER_OPTIONS,
      << <<"auto_optimize", TRUE>>, <<"simplify", FALSE>> >>,
      << <<"simplify", FALSE>>, <<"auto_optimize", TRUE>> >> }

\* the positional argument lists of compile()
OptionArgLists == { <<>>, << CNone >> } \cup { << CDict(d) >> : d \in OptionDicts }

\* the argument lists offered to lower()
CompileLowerArgLists == { <<A1, B1>> }

NextCompile ==
    \/ \E args \in CompileLowerArgLists : Lower(1, args, 0, "ok")
    \/ \E l \in 1..Len(lowered), args \in OptionArgLists, collab \in Collaborators :
          Compile(l, args, 0, collab)

SpecCompile == Init /\ [][NextCompile]_vars

(***************************************************************************)
(* Properties of the pipeline (checked under Spec).                        *)
(***************************************************************************)
IsCall(r) == r.op \in {"lower", "compile"}

Succeeded(r) == r.outcome \in {"hit", "miss"}

\* the result of make_key for the call recorded in `r`, for the stages W, L
RetKey(r, W, L) ==
    IF r.op = "lower"
    THEN make_key_wrapped(W[r.stage], r.args, r.nkwargs)
    ELSE make_key_lowered(L[r.stage], r.stage, r.args, r.nkwargs)

\* the call recorded in r2 is on the same stage and has the same key as the
\* call recorded in r1
SameKeyCall(r1, r2) ==
    /\ IsCall(r1) /\ r2.op = r1.op /\ r2.stage = r1.stage
    /\ RetKey(r1, wrapped, lowered).err = None
    /\ RetKey(r2, wrapped, lowered).err = None
    /\ RetKey(r2, wrapped, lowered).key = RetKey(r1, wrapped, lowered).key

\* the store that the stage of the call recorded in `r` holds in state W, L
CacheOf(r, W, L) == IF r.op = "lower" THEN W[r.stage].cache ELSE L[r.stage].cache

\* every store that existed keeps its entries in their order, and a store
\* created by the step is empty
StoresKept ==
    /\ Len(stores') >= Len(stores)
    /\ \A id \in 1..Len(stores') :
          IF id <= Len(stores) THEN stores'[id] = stores[id]
                               ELSE stores'[id].memory = <<>>

\* the argument lists differ at most in the contents of the arrays
SameStructure(a, b) ==
    /\ Len(a) = Len(b)
    /\ \A i \in 1..Len(a) : [a[i] EXCEPT !.data = 0] = [b[i] EXCEPT !.data = 0]

\* the argument lists differ in the shape at some position
ShapesDiffer(a, b) ==
    \/ Len(a) # Len(b)
    \/ \E i \in 1..Len(a) : a[i].shape # b[i].shape

\* C1: in a run of consecutive calls of one cached transition on one stage
\* with the same key, only the first call can execute the body: every call
\* that follows a successful call with the same key is a hit, does not
\* execute the body, creates no stage and returns the object of the call
\* before it.
C1_RepeatedCallHits ==
    [][(Succeeded(ret) /\ SameKeyCall(ret, ret'))
          => /\ ret'.outcome = "hit" /\ ~ret'.ran
             /\ ret'.result = ret.result
             /\ Len(lowered') = Len(lowered) /\ Len(compiled') = Len(compiled)]_vars

\* a lower() call was a hit while the body of lower() has run once
C1_Witness ==
    ret.op = "lower" /\ ret.outcome = "hit" /\ Len(lowered) = 1 /\ ret.result = 1

\* C2: the transition call that follows clear_translation_cache() is a fresh
\* miss: it is not served from an entry cached before the reset, also when
\* it is made on the stage that made the cached call.
C2_ResetForcesMiss ==
    [][(ret.op = "clear" /\ IsCall(ret')) => ret'.outcome # "hit"]_vars

\* C3: lower() on one Wrapped stage never returns the Lowered stage that
\* lower() on another Wrapped stage has just created and cached.
C3_InstancesDoNotCollide ==
    [][(ret.op = "lower" /\ ret.outcome = "miss"
        /\ ret'.op = "lower" /\ ret'.stage # ret.stage)
          => ret'.result # ret.result]_vars

\* C4: a lower() call whose positional arguments differ only in contents from
\* those of the successful lower() call before it on the same Wrapped stage
\* has the same key, does not run the body (the tracer) and returns the
\* same Lowered stage.
C4_StructuralReuse ==
    [][(ret.op = "lower" /\ Succeeded(ret)
        /\ ret'.op = "lower" /\ ret'.stage = ret.stage /\ ret'.nkwargs = 0
        /\ SameStructure(ret.args, ret'.args))
          => /\ RetKey(ret', wrapped, lowered).err = None
             /\ RetKey(ret', wrapped, lowered).key = RetKey(ret, wrapped, lowered).key
             /\ ret'.outcome = "hit" /\ ~ret'.ran
             /\ ret'.result = ret.result]_vars

\* lower() with the arrays of the second contents was a hit on the only
\* Lowered stage
C4_Witness ==
    /\ ret.op = "lower" /\ ret.outcome = "hit" /\ ret.args = <<A2, B1>>
    /\ Len(lowered) = 1

\* C5: two lower() calls on one Wrapped stage whose arguments differ in shape
\* at some position have unequal keys and return distinct Lowered stages;
\* the entries of a store hold pairwise distinct objects; compile() on two
\* distinct Lowered stages returns distinct Compiled stages, and compile()
\* lowers nothing.
C5_StructuralMiss ==
    /\ [](\A id \in 1..Len(stores) : \A i, j \in 1..Len(stores[id].memory) :
             i # j => stores[id].memory[i].val # stores[id].memory[j].val)
    /\ [][(ret.op = "lower" /\ Succeeded(ret)
           /\ ret'.op = "lower" /\ Succeeded(ret') /\ ret'.stage = ret.stage
           /\ ShapesDiffer(ret.args, ret'.args))
             => /\ RetKey(ret', wrapped, lowered).key # RetKey(ret, wrapped, lowered).key
                /\ ret'.result # ret.result]_vars
    /\ [][(ret.op = "compile" /\ Succeeded(ret)
           /\ ret'.op = "compile" /\ Succeeded(ret') /\ ret'.stage # ret.stage)
             => ret'.result # ret.result]_vars
    /\ [][ret'.op = "compile" => Len(lowered') = Len(lowered)]_vars

\* one callable was lowered for two structures and both Lowered stages were
\* compiled
C5_Witness ==
    /\ Len(lowered) = 2 /\ Len(compiled) = 2
    /\ lowered[1].sdfg.fun = lowered[2].sdfg.fun
    /\ lowered[1].sdfg.fargs # lowered[2].sdfg.fargs
    /\ compiled[1].csdfg.sdfg # compiled[2].csdfg.sdfg
    /\ ret.op = "compile" /\ ret.outcome = "miss"

\* C9: a call whose transition body fails returns the error, leaves every
\* store as it was (same entries, same order, no entry for the key), and
\* the next call with the same key executes the body again.
C9_BodyFailureNotCached ==
    /\ [][(IsCall(ret') /\ ret'.ran /\ ret'.outcome = "error")
             => /\ ret'.err # None /\ ret'.result = 0
                /\ StoresKept
                /\ ~has(stores'[CacheOf(ret', wrapped', lowered')].memory,
                        RetKey(ret', wrapped, lowered).key)]_vars
    /\ [][(ret.ran /\ ret.outcome = "error" /\ SameKeyCall(ret, ret'))
             => ret'.ran]_vars

\* the translation behind lower() failed while the store held an entry
C9_Witness ==
    /\ ret.op = "lower" /\ ret.ran /\ ret.outcome = "error"
    /\ ret.err = "TranslationError"
    /\ stores[wrapped[ret.stage].cache].memory # <<>>

\* C10: a call whose key construction or argument fingerprinting fails
\* returns that error, does not invoke the transition body, creates no
\* stage and leaves the entries and the order of every store as they were.
C10_KeyFailureLeavesStore ==
    [][(IsCall(ret') /\ RetKey(ret', wrapped, lowered).err # None)
          => /\ ret'.outcome = "error" /\ ~ret'.ran
             /\ ret'.err = RetKey(ret', wrapped, lowered).err
             /\ StoresKept
             /\ Len(lowered') = Len(lowered) /\ Len(compiled') = Len(compiled)]_vars

\* fingerprinting a jax.core.Literal failed while the store held an entry
C10_Witness ==
    /\ ret.op = "lower" /\ ret.outcome = "error" /\ ~ret.ran
    /\ ret.err = "TypeError"
    /\ stores[wrapped[ret.stage].cache].memory # <<>>

(***************************************************************************)
(* Properties of the store (checked under SpecStore).                      *)
(***************************************************************************)
\* the last n elements of a sequence
LastN(seq, n) == SubSeq(seq, Len(seq) - n + 1, Len(seq))

ValueAt(mem, key) == mem[IndexOf(mem, key)].val

\* C6: in a full store of capacity N, add() of an absent key evicts exactly
\* the entry that was least recently inserted or accessed, keeps the other
\* N-1 entries with their values and inserts the new key as most recent;
\* N+1 distinct keys added to an empty store leave exactly the N most recent.
C6_AddEvictsLeastRecent ==
    /\ [](ins.pure => KeysOf(_memory) =
            LastN(ins.keys, IF Len(ins.keys) < _size THEN Len(ins.keys) ELSE _size))
    /\ [][\A k \in StoreKeySet :
            (~has(_memory, k) /\ has(_memory', k) /\ Len(_memory) = _size) =>
               /\ Len(_memory') = _size
               /\ ~has(_memory', Head(lru))
               /\ \A j \in StoreKeySet :
                     (has(_memory, j) /\ j # Head(lru)) =>
                        (has(_memory', j) /\ ValueAt(_memory', j) = ValueAt(_memory, j))
               /\ _memory'[Len(_memory')].key = k]_vars

\* N+1 distinct keys have been added to an empty store of capacity N >= 2
C6_Witness ==
    ins.pure /\ _size >= 2 /\ Len(ins.keys) = _size + 1 /\ Len(_memory) = _size

\* C7: get(key) and add(key, v) on a present key make the key the most
\* recently used entry, so that the next eviction (while another entry
\* exists) removes another entry; with capacity 2 the sequence add A, add B,
\* add C, get B, add D leaves exactly B and D, A evicted by C, C by D.
C7_AccessPromotes ==
    /\ []((sret.op \in {"get", "add"} /\ sret.err = None) =>
            (Len(_memory) > 0 /\ _memory[Len(_memory)].key = sret.key))
    /\ [][(sret.op \in {"get", "add"} /\ sret.err = None /\ Len(_memory) >= 2
           /\ ~has(_memory', sret.key))
          => (sret'.op = "_evict" /\ sret'.key = sret.key)]_vars
    /\ [](scen = 3 => KeysOf(_memory) = <<"B", "C">>)
    /\ [](scen = 4 => KeysOf(_memory) = <<"C", "B">>)
    /\ [](scen = 5 => KeysOf(_memory) = <<"B", "D">>)

\* the whole sequence add A, add B, add C, get B, add D has been performed
C7_Witness == scen = 5 /\ _size = 2 /\ sret.op = "add" /\ sret.key = "D"

\* C8: the number of entries never exceeds the capacity given at
\* construction, and the capacity never changes.
C8_Bounded ==
    /\ [](Len(_memory) <= _size)
    /\ [][_size' = _size]_vars

\* a full store of the largest capacity after an add that followed other
\* operations than first insertions
C8_Witness ==
    /\ _size = MaxSize /\ Len(_memory) = _size
    /\ sret.op = "add" /\ ~ins.pure

\* C20: get(key) on a key that is not in the store fails with KeyError and
\* leaves the entries of the store and their order unchanged.
C20_GetAbsentFails ==
    [][(sret'.op = "get" /\ ~has(_memory, sret'.key)) =>
          (sret'.err = "KeyError" /\ _memory' = _memory /\ _size' = _size)]_vars

\* a get of an absent key on a store that holds two or more entries
C20_Witness ==
    /\ sret.op = "get" /\ sret.err = "KeyError"
    /\ Len(_memory) >= 2 /\ ~has(_memory, sret.key)

(***************************************************************************)
(* Properties of __call__ and of the registry (checked under SpecCall).    *)
(***************************************************************************)
\* the Wrapped stage w holds a store with an entry for lower(a), and the
\* Lowered stage of that entry holds a store with an entry for compile()
Prepared(w, a) ==
    /\ wrapped[w].cache # 0
    /\ LET m == stores[wrapped[w].cache].memory
           k == make_key_wrapped(wrapped[w], a, 0)
       IN  /\ k.err = None
           /\ has(m, k.key)
           /\ LET l  == ValueAt(m, k.key)
                  k2 == make_key_lowered(lowered[l], l, <<>>, 0)
              IN  /\ lowered[l].cache # 0
                  /\ has(stores[lowered[l].cache].memory, k2.key)

\* the Compiled stage that lower(a).compile() on w has stored
PreparedCompiled(w, a) ==
    LET l == ValueAt(stores[wrapped[w].cache].memory, make_key_wrapped(wrapped[w], a, 0).key)
    IN  ValueAt(stores[lowered[l].cache].memory, make_key_lowered(lowered[l], l, <<>>, 0).key)

\* C14: a successful lower() or compile() leaves its result in the store of
\* the stage, entries and the store a stage holds stay (the default capacity
\* is never reached), and therefore, once w.lower(a).compile() has been
\* performed, w(b) outside of a trace with b = a or b of the same structure
\* as a lowers, compiles with the default options and executes without
\* running the lowering body or the compile body, creating no stage and
\* executing the Compiled stage that was stored.
C14_CallReusesStages ==
    /\ []((IsCall(ret) /\ Succeeded(ret)) =>
            LET m == stores[CacheOf(ret, wrapped, lowered)].memory
                k == RetKey(ret, wrapped, lowered).key
            IN  has(m, k) /\ ValueAt(m, k) = ret.result)
    /\ [][/\ \A id \in 1..Len(stores) : \A i \in 1..Len(stores[id].memory) :
               /\ has(stores'[id].memory, stores[id].memory[i].key)
               /\ ValueAt(stores'[id].memory, stores[id].memory[i].key)
                     = stores[id].memory[i].val
          /\ \A w \in 1..Len(wrapped) :
               wrapped[w].cache # 0 => wrapped'[w].cache = wrapped[w].cache
          /\ \A l \in 1..Len(lowered) :
               /\ lowered[l].cache # 0 => lowered'[l].cache = lowered[l].cache
               /\ lowered'[l].sdfg = lowered[l].sdfg]_vars
    /\ [][(ret'.op = "call" /\ ret'.outcome # "forwarded") =>
            \A a \in CallArgLists :
               (Prepared(ret'.stage, a) /\ SameStructure(a, ret'.args)) =>
                  /\ ret'.outcome = "executed"
                  /\ ~ret'.ran
                  /\ ret'.result = PreparedCompiled(ret'.stage, a)
                  /\ lowered' = lowered
                  /\ compiled' = compiled]_vars

\* a direct call, after a reset, that executed a stored Compiled stage
\* without running a body
C14_Witness ==
    /\ ret.op = "call" /\ ret.outcome = "executed" /\ ~ret.ran
    /\ ret.args = <<A2, B1>>
    /\ Len(lowered) = 1 /\ Len(compiled) = 1
    /\ wrapped[ret.stage].cache # caches["JaceWrapped"]

\* C16: a request to the registry for a kind that has no store creates an
\* empty store of the requested size and returns it; a request for a kind
\* that has a store returns that store and changes nothing, whatever size
\* is passed; until the next reset the store of a kind stays the same, a
\* store is created only for a kind that had none, and distinct kinds have
\* distinct stores.
C16_RegistryLazy ==
    /\ [][ret'.op = "_get_cache" =>
            IF caches[ret'.kind] = 0
            THEN /\ Len(stores') = Len(stores) + 1
                 /\ ret'.result = Len(stores')
                 /\ caches' = [caches EXCEPT ![ret'.kind] = ret'.result]
                 /\ stores'[ret'.result] = [memory |-> <<>>, size |-> ret'.size]
                 /\ \A id \in 1..Len(stores) : stores'[id] = stores[id]
            ELSE /\ ret'.result = caches[ret'.kind]
                 /\ caches' = caches
                 /\ stores' = stores]_vars
    /\ [][\A k \in StageKinds :
            (caches[k] # 0 /\ ret'.op # "clear") => caches'[k] = caches[k]]_vars
    /\ [][Len(stores') - Len(stores) =
            Cardinality({k \in StageKinds : caches[k] = 0 /\ caches'[k] # 0})]_vars
    /\ [](\A k1, k2 \in StageKinds :
            (caches[k1] # 0 /\ caches[k1] = caches[k2]) => k1 = k2)

\* a later request with another size than the one the store was created with
C16_Witness ==
    /\ ret.op = "_get_cache"
    /\ stores[ret.result].size # ret.size
    /\ caches[ret.kind] = ret.result

\* C17: every store that a stage holds, and therefore consults in its
\* transition, is the store that the registry currently holds for the kind
\* of the stage.
C17_RegistryOwnsStores ==
    /\ \A w \in 1..Len(wrapped) :
          wrapped[w].cache # 0 => wrapped[w].cache = caches["JaceWrapped"]
    /\ \A l \in 1..Len(lowered) :
          lowered[l].cache # 0 => lowered[l].cache = caches["JaceLowered"]

(***************************************************************************)
(* Properties of the option functions (checked under SpecOptions).         *)
(***************************************************************************)
\* the mapping that finalize_compilation_options was called with
GivenOptions(r) == IF r.args[1].tag = "dict" THEN r.args[1].d ELSE <<>>

\* C18: finalize_compilation_options(opts) returns the active global
\* options overridden key by key by opts, None counting as empty: a key of
\* opts has its value of opts, any other key of the global set has its
\* global value, no other key is present and no key occurs twice.
C18_FinalizeMerges ==
    [][ret'.op = "finalize" =>
         LET o == GivenOptions(ret')
             g == active_options
             r == handed'.d
         IN  /\ \A n \in OptionNames :
                   /\ DictHas(o, n) => (DictHas(r, n) /\ DictGet(r, n) = DictGet(o, n))
                   /\ (~DictHas(o, n) /\ DictHas(g, n)) =>
                         (DictHas(r, n) /\ DictGet(r, n) = DictGet(g, n))
                   /\ (~DictHas(o, n) /\ ~DictHas(g, n)) => ~DictHas(r, n)
             /\ \A i, j \in 1..Len(r) : r[i][1] = r[j][1] => i = j]_vars

\* finalize with an argument that overrides one global key and adds a key
\* that the global set does not have, after the global set was updated
C18_Witness ==
    /\ ret.op = "finalize"
    /\ ret.args = << CDict(<< <<"validate", FALSE>>, <<"auto_optimize", FALSE>> >>) >>
    /\ ~DictHas(active_options, "validate")
    /\ DictGet(active_options, "simplify") = FALSE
    /\ Len(handed.d) = 3

\* C19: get_active_compiler_options and finalize_compilation_options leave
\* the global option set unchanged; the mapping returned by them or by
\* update_active_compiler_options is not the global object, and an
\* assignment to an item of a returned mapping never changes the global set.
C19_OptionsAreCopies ==
    /\ [][ret'.op \in {"get_active", "finalize"} => active_options' = active_options]_vars
    /\ [][ret'.op \in {"get_active", "finalize", "update"} => handed'.id # "global"]_vars
    /\ [][ret'.op = "mutate" => active_options' = active_options]_vars
    /\ [][ret'.op = "update" => handed'.d = active_options]_vars

\* the mapping returned by get_active_compiler_options was assigned to and
\* now differs from the global set
C19_Witness ==
    /\ ret.op = "mutate"
    /\ handed.d # active_options
    /\ Len(handed.d) = Len(active_options)
    /\ handed.id = "new"

(***************************************************************************)
(* Properties of compile() with options (checked under SpecCompile).       *)
(***************************************************************************)
\* the option mapping that a compile() call with the arguments `args` means
EffectiveOptions(args) ==
    IF Len(args) = 0 \/ args[1].tag = "none" THEN DEF_COMPILER_OPTIONS ELSE args[1].d

\* the name/value pairs of a mapping
PairSet(d) == {d[i] : i \in 1..Len(d)}

\* the arguments are one explicit option mapping
IsMapping(args) == Len(args) = 1 /\ args[1].tag = "dict"

\* the ways to ask for the default compiler options
DefaultForms == { <<>>, << CNone >>, << CDict(DEF_COMPILER_OPTIONS) >> }

\* the entries that the store of the Lowered stage l holds for l, for the
\* stages L and the stores S
EntriesIn(L, S, l) ==
    IF L[l].cache = 0 THEN {}
    ELSE LET m == S[L[l].cache].memory
         IN  {m[i] : i \in {j \in 1..Len(m) : m[j].key.sdfg = l}}

EntriesOf(l) == EntriesIn(lowered, stores, l)

\* the step is a compile() call with a valid key
CompileStep == ret'.op = "compile" /\ RetKey(ret', wrapped', lowered').err = None

\* C11: a compile() call with an option mapping returns, as a hit and
\* without running the body, the Compiled stage of any earlier call on the
\* same Lowered stage whose mapping held the same name/value pairs,
\* whatever the key order of the two mappings.
C11_OptionOrderIndependent ==
    [][CompileStep =>
         \A e \in EntriesOf(ret'.stage) :
            (/\ IsMapping(ret'.args) /\ IsMapping(compiled[e.val].by)
             /\ PairSet(ret'.args[1].d) = PairSet(compiled[e.val].by[1].d)) =>
               /\ RetKey(ret', wrapped', lowered').key = e.key
               /\ ret'.outcome = "hit"
               /\ ret'.result = e.val
               /\ ~ret'.ran
               /\ compiled' = compiled]_vars

\* a hit by a mapping that lists "simplify" first, on the stage created by
\* a call with the mapping that lists "auto_optimize" first
C11_Witness ==
    /\ ret.op = "compile" /\ ret.outcome = "hit"
    /\ ret.args = << CDict(<< <<"simplify", FALSE>>, <<"auto_optimize", TRUE>> >>) >>
    /\ compiled[ret.result].by =
          << CDict(<< <<"auto_optimize", TRUE>>, <<"simplify", FALSE>> >>) >>

\* C12: a successful compile() call never returns the Compiled stage of an
\* earlier call on the same Lowered stage whose option values differ (the
\* options of a call without a mapping being the defaults, an empty mapping
\* being no options): the keys differ, the earlier entry stays, the two
\* entries hold different Compiled stages, and when no entry with the same
\* options exists the call is a miss that creates a new Compiled stage from
\* its own copy of the IR.
C12_OptionSensitive ==
    /\ [][(CompileStep /\ Succeeded(ret')) =>
            /\ \A e \in EntriesOf(ret'.stage) :
                  PairSet(EffectiveOptions(ret'.args))
                        # PairSet(EffectiveOptions(compiled[e.val].by)) =>
                     /\ RetKey(ret', wrapped', lowered').key # e.key
                     /\ ret'.result # e.val
                     /\ e \in EntriesIn(lowered', stores', ret'.stage)
            /\ (\A e \in EntriesOf(ret'.stage) :
                  PairSet(EffectiveOptions(ret'.args))
                        # PairSet(EffectiveOptions(compiled[e.val].by))) =>
                     /\ ret'.outcome = "miss" /\ ret'.ran
                     /\ ret'.result = Len(compiled) + 1
                     /\ compiled' = Append(compiled, compiled'[ret'.result])
                     /\ compiled'[ret'.result].by = ret'.args]_vars
    /\ [](\A l \in 1..Len(lowered) : \A e1, e2 \in EntriesOf(l) :
            e1.val = e2.val => e1.key = e2.key)

\* compile({}) created a second Compiled stage next to the one that a call
\* with the default options created
C12_Witness ==
    /\ ret.op = "compile" /\ ret.outcome = "miss"
    /\ ret.args = << CDict(<<>>) >>
    /\ Len(compiled) = 2
    /\ compiled[1].by = << CDict(DEF_COMPILER_OPTIONS) >>
    /\ Cardinality(EntriesOf(ret.stage)) = 2

\* C13: compile(), compile(None) and compile(DEF_COMPILER_OPTIONS) have the
\* same key: each of them returns, as a hit and without running the body,
\* the Compiled stage that an earlier one of them created on the same
\* Lowered stage.
C13_DefaultForms ==
    [][CompileStep =>
         \A e \in EntriesOf(ret'.stage) :
            (ret'.args \in DefaultForms /\ compiled[e.val].by \in DefaultForms) =>
               /\ RetKey(ret', wrapped', lowered').key = e.key
               /\ ret'.outcome = "hit"
               /\ ret'.result = e.val
               /\ ~ret'.ran
               /\ compiled' = compiled]_vars

\* compile(None) hit the stage that compile(DEF_COMPILER_OPTIONS) created
C13_Witness ==
    /\ ret.op = "compile" /\ ret.outcome = "hit"
    /\ ret.args = << CNone >>
    /\ compiled[ret.result].by = << CDict(DEF_COMPILER_OPTIONS) >>

\* C15: no step changes the IR that a Lowered stage holds or its structural
\* hash: the IR stays as lower() built it, not optimized, and every
\* Compiled stage holds an optimized IR of its own.
C15_CompileKeepsIR ==
    /\ [][\A l \in 1..Len(lowered) :
            /\ lowered'[l].sdfg = lowered[l].sdfg
            /\ hash_sdfg(lowered'[l].sdfg) = hash_sdfg(lowered[l].sdfg)]_vars
    /\ [](\A l \in 1..Len(lowered) : lowered[l].sdfg.opt = NotOptimized)
    /\ [](\A c \in 1..Len(compiled) : compiled[c].csdfg.sdfg.opt.done)

\* two compilations with different options ran on the Lowered stage, the
\* second with an explicit mapping
C15_Witness ==
    /\ ret.op = "compile" /\ ret.outcome = "miss" /\ ret.ran
    /\ IsMapping(ret.args) /\ Len(ret.args[1].d) = 2
    /\ Len(compiled) = 2
    /\ compiled[1].csdfg.sdfg.opt # compiled[2].csdfg.sdfg.opt
    /\ lowered[ret.stage].sdfg.opt = NotOptimized

(***************************************************************************)
(* Further properties of the pipeline (checked under Spec).                *)
(***************************************************************************)
\* C21: no call of a cached transition ends with the KeyError of the store:
\* the wrapper reads the store only after has() was true for the key, on
\* the same entries, so a call ends as a hit, as a miss, or with the error
\* of the key construction or of the body.
C21_WrapperNeverKeyError ==
    [](IsCall(ret) =>
         /\ ret.err # "KeyError"
         /\ ret.outcome \in {"hit", "miss", "error"}
         /\ (ret.outcome = "error") = (ret.err # None))

\* a hit on a store that holds two entries
C21_Witness ==
    /\ IsCall(ret) /\ ret.outcome = "hit"
    /\ Len(stores[CacheOf(ret, wrapped, lowered)].memory) >= 2

(***************************************************************************)
(* Further properties of the store (checked under SpecStore).              *)
(***************************************************************************)
\* C22: has(key) answers whether the key is present and leaves the entries,
\* their order and the capacity as they were, for a present and for an
\* absent key; in particular has() on the least recently used entry of a
\* full store does not keep the next add of an absent key from evicting it.
C22_HasNoSideEffect ==
    /\ [][sret'.op = "has" =>
            /\ _memory' = _memory /\ _size' = _size
            /\ sret'.flag = has(_memory, sret'.key)]_vars
    /\ [][(/\ sret.op = "has" /\ sret.flag
           /\ Len(_memory) = _size /\ _memory[1].key = sret.key
           /\ sret'.op = "add" /\ ~has(_memory, sret'.key))
          => ~has(_memory', sret.key)]_vars

\* has() found the least recently used entry of a full store of the
\* largest capacity
C22_Witness ==
    /\ sret.op = "has" /\ sret.flag
    /\ _size = MaxSize /\ Len(_memory) = _size
    /\ _memory[1].key = sret.key

\* the entries of `mem` without the entry of `key`, in their order
Without(mem, key) == SelectSeq(mem, LAMBDA e : e.key # key)

\* C23: add(key, v) on a present key stores v under the key, makes the key
\* the most recently used entry, keeps every other entry with its value and
\* relative order and keeps the number of entries, also on a full store;
\* a get(key) that follows returns v.
C23_AddOverwrites ==
    /\ [][(sret'.op = "add" /\ has(_memory, sret'.key)) =>
            /\ Len(_memory') = Len(_memory)
            /\ _memory'[Len(_memory')] = [key |-> sret'.key, val |-> sret'.val]
            /\ Without(_memory', sret'.key) = Without(_memory, sret'.key)]_vars
    /\ [][(sret.op = "add" /\ sret'.op = "get" /\ sret'.key = sret.key) =>
            (sret'.err = None /\ sret'.val = sret.val)]_vars

\* add on a present key of a full store of the largest capacity
C23_Witness ==
    /\ sret.op = "add" /\ sret.flag
    /\ _size = MaxSize /\ Len(_memory) = _size
    /\ ValueAt(_memory, sret.key) = sret.val

\* C24: _evict(key) with a present key removes exactly the entry of the
\* key and returns true, with an absent key it changes nothing and returns
\* false; _evict(None) removes exactly the least recently used entry and
\* returns true, and on an empty store changes nothing and returns false.
C24_EvictExact ==
    [][sret'.op = "_evict" =>
         IF sret'.key # None
         THEN IF has(_memory, sret'.key)
              THEN sret'.flag /\ _memory' = Without(_memory, sret'.key)
              ELSE ~sret'.flag /\ _memory' = _memory
         ELSE IF Len(_memory) > 0
              THEN /\ sret'.flag /\ _memory' = Tail(_memory)
                   /\ _memory[1].key = Head(lru)
              ELSE ~sret'.flag /\ _memory' = _memory]_vars

\* _evict(key) removed the key from a full store of the largest capacity
C24_Witness ==
    /\ sret.op = "_evict" /\ sret.key # None /\ sret.flag
    /\ _size = MaxSize /\ Len(_memory) = MaxSize - 1

(***************************************************************************)
(* Properties of the construction of a store (checked under SpecNew).      *)
(***************************************************************************)
\* C25: the constructor raises ValueError for every size <= 0 and then no
\* store comes into being (the store in use, if there is one, stays as it
\* is); for every size > 0 it succeeds and yields an empty store of that
\* capacity; no store has a capacity below 1.
C25_ConstructionChecksSize ==
    /\ [][sret'.op = "__init__" =>
            IF sret'.size <= 0
            THEN /\ sret'.err = "ValueError" /\ ~sret'.flag
                 /\ _memory' = _memory /\ _size' = _size
            ELSE /\ sret'.err = None /\ sret'.flag
                 /\ _memory' = <<>> /\ _size' = sret'.size]_vars
    /\ [](sret.op # "none" => (sret.op = "__init__" \/ _size >= 1))
    /\ [](_size >= 0 /\ (_size = 0 => _memory = <<>>))

\* a construction with a size <= 0 failed while a store with entries was
\* in use
C25_Witness ==
    /\ sret.op = "__init__" /\ sret.err = "ValueError" /\ sret.size = 0
    /\ Len(_memory) = 2


(***************************************************************************)
(* SpecKeys: the pipeline with the calls whose key cannot be constructed:  *)
(* keyword arguments, distributed arrays, literals, scalars and malformed  *)
(* arguments of compile().                                                 *)
(***************************************************************************)
\* the positional argument lists offered to lower()
KeyArgLists ==
    { <<A1, B1>>, <<A2, B1>>, <<X1>>, <<L1>>, <<S1>>, <<A1, X1>>, <<L1, X1>>, <<A1, S1>> }

\* the calls of lower()
KeyLowerCalls ==
    {[args |-> a, nkwargs |-> 0] : a \in KeyArgLists}
        \cup {[args |-> <<A1, L1>>, nkwargs |-> 1], [args |-> <<A1, B1>>, nkwargs |-> 1]}

\* the calls of compile()
KeyCompileCalls ==
    {[args |-> a, nkwargs |-> 0] :
        a \in { <<>>, <<CNone>>, <<CDict(<<>>)>>, <<COther>>, <<CDict(<<>>), CNone>> }}
        \cup {[args |-> <<>>, nkwargs |-> 1], [args |-> <<CDict(<<>>)>>, nkwargs |-> 1]}

NextKeys ==
    \/ \E w \in 1..Len(wrapped), c \in KeyLowerCalls : Lower(w, c.args, c.nkwargs, "ok")
    \/ \E l \in 1..Len(lowered), c \in KeyCompileCalls : Compile(l, c.args, c.nkwargs, "ok")

SpecKeys == Init /\ [][NextKeys]_vars

\* some store holds an entry
SomeEntry == \E id \in 1..Len(stores) : stores[id].memory # <<>>

\* C26: lower() called with a keyword argument ends with an error; no
\* positional argument has been fingerprinted, the body of the transition
\* has not run, no Lowered stage was created and every store keeps its
\* entries in their order.
C26_LowerRejectsKwargs ==
    [][(ret'.op = "lower" /\ ret'.nkwargs # 0) =>
          /\ ret'.outcome = "error"
          /\ ret'.err = "NotImplementedError"
          /\ ret'.nfp = 0
          /\ ~ret'.ran
          /\ lowered' = lowered
          /\ StoresKept]_vars

\* a call of lower() with a keyword argument and with a literal among the
\* positional arguments was rejected while a store held an entry
C26_Witness ==
    /\ ret.op = "lower" /\ ret.nkwargs = 1 /\ ret.args = <<A1, L1>>
    /\ ret.outcome = "error"
    /\ SomeEntry

\* the call of compile() recorded in `r` has a malformed shape
Malformed(r) ==
    \/ r.nkwargs # 0
    \/ Len(r.args) >= 2
    \/ Len(r.args) = 1 /\ r.args[1].tag = "other"

\* C27: compile() called with a malformed shape fails with an
\* invalid-arguments error before any fingerprinting operation has begun,
\* the structural hash of the SDFG included, and every store keeps its
\* entries.
C27_CompileRejectsMalformed ==
    [][(ret'.op = "compile" /\ Malformed(ret')) =>
          /\ ret'.outcome = "error"
          /\ ret'.err = "ValueError"
          /\ ret'.nfp = 0
          /\ ~ret'.ran
          /\ StoresKept]_vars

\* the value is a distributed array: a JAX array that is not fully
\* addressable
Distributed(v) == v.kind = "jax_array" /\ ~v.addressable

\* the value is a literal of a Jaxpr
Placeholder(v) == v.kind = "literal"

\* the value is an array that is held locally
LocalArray(v) == v.kind \in {"ndarray", "jax_array"} /\ ~Distributed(v)

\* position i is the first one of the call recorded in `r` that does not
\* hold a local array
FirstOther(r, i) ==
    /\ i \in 1..Len(r.args)
    /\ ~LocalArray(r.args[i])
    /\ \A j \in 1..(i - 1) : LocalArray(r.args[j])

\* C28: lower() whose first argument that is not a local array is a
\* distributed array fails with NotImplementedError, and with a literal in
\* that place it fails with TypeError; fingerprinting stops at that
\* argument and no key is made: the body does not run, no stage is created
\* and the stores keep their entries.
C28_DistributedAndLiteralRejected ==
    [][\A i \in 1..Len(ret'.args) :
          (/\ ret'.op = "lower" /\ ret'.nkwargs = 0
           /\ FirstOther(ret', i)
           /\ Distributed(ret'.args[i]) \/ Placeholder(ret'.args[i])) =>
              /\ ret'.outcome = "error"
              /\ ret'.err = IF Distributed(ret'.args[i])
                             THEN "NotImplementedError" ELSE "TypeError"
              /\ ret'.nfp = i
              /\ ~ret'.ran
              /\ lowered' = lowered
              /\ StoresKept]_vars

\* a call with a distributed array was rejected while a store held an entry
C28_Witness ==
    /\ ret.op = "lower" /\ ret.args = <<A1, X1>> /\ ret.nkwargs = 0
    /\ ret.err = "NotImplementedError"
    /\ SomeEntry

\* C29: lower() whose first argument that is not a local array is a value
\* that is neither an array nor an abstract value ends with a fingerprint
\* for it or with the cannot-abstract error (TypeError), with no other kind
\* of error.
C29_ScalarEscalatesOnce ==
    [][\A i \in 1..Len(ret'.args) :
          (/\ ret'.op = "lower" /\ ret'.nkwargs = 0
           /\ FirstOther(ret', i)
           /\ ret'.args[i].kind = "scalar") =>
              ret'.err \in {None, "TypeError", "NotImplementedError"}]_vars

\* C30: a call of a Wrapped stage made while a trace is going on is
\* forwarded to the wrapped function: no body of a transition runs, no stage
\* is created, no stage takes a store, and the registry and every store are
\* as they were before the call.
C30_NestedCallForwards ==
    [][(ret'.op = "call" /\ ret'.tracing) =>
          /\ ret'.outcome = "forwarded"
          /\ ~ret'.ran
          /\ caches' = caches
          /\ stores' = stores
          /\ wrapped' = wrapped
          /\ lowered' = lowered
          /\ compiled' = compiled]_vars

\* a call was forwarded while the registry held the store of the Wrapped
\* stages and that store held an entry
C30_Witness ==
    /\ ret.op = "call" /\ ret.tracing /\ ret.outcome = "forwarded"
    /\ caches["JaceWrapped"] # 0
    /\ stores[caches["JaceWrapped"]].memory # <<>>

(***************************************************************************)
(* SpecActive: compile() as stages.py declares it, a cached transition     *)
(* whose key is the result of JaCeLowered._make_call_description, with     *)
(* updates of the global option set between the calls.                     *)
(***************************************************************************)
\* jax.tree_util.tree_flatten of a dict: the values in the order of the
\* sorted keys, and the sorted keys as the tree definition
tree_flatten(d) ==
    [leaves  |-> [i \in 1..Len(d) |-> SortedPairs(d)[i][2]],
     treedef |-> [i \in 1..Len(d) |-> SortedPairs(d)[i][1]]]

NoSpec == [stage_id |-> 0, flat_call_args |-> <<>>, in_tree |-> <<>>]

\* variant: the description is made of the options of the call alone
_make_call_description_local(id, args, nkwargs) ==
    IF nkwargs # 0 \/ Len(args) > 1
    THEN [err |-> "AssertionError", key |-> NoSpec, nfp |-> 0]
    ELSE IF Len(args) = 1 /\ args[1].tag = "other"
    THEN [err |-> "TypeError", key |-> NoSpec, nfp |-> 0]
    ELSE LET flat == tree_flatten(or_empty(IF Len(args) = 0 THEN CDict(<<>>) ELSE args[1]).d)
         IN  [err |-> None,
              key |-> [stage_id |-> id, flat_call_args |-> flat.leaves,
                       in_tree |-> flat.treedef],
              nfp |-> 1]

\* JaCeLowered._make_call_description for the stage with identity `id`:
\* result [err, key, nfp].  `{}` stands for a missing argument; a value that
\* is neither None nor a dict fails in the dict union of
\* finalize_compilation_options.
_make_call_description(id, args, nkwargs) ==
    IF nkwargs # 0 \/ Len(args) > 1
    THEN [err |-> "AssertionError", key |-> NoSpec, nfp |-> 0]
    ELSE IF Len(args) = 1 /\ args[1].tag = "other"
    THEN [err |-> "TypeError", key |-> NoSpec, nfp |-> 0]
    ELSE LET options == finalize_compilation_options(
                            IF Len(args) = 0 THEN CDict(<<>>) ELSE args[1])
             flat    == tree_flatten(options.d)
         IN  [err |-> None,
              key |-> [stage_id |-> id, flat_call_args |-> flat.leaves,
                       in_tree |-> flat.treedef],
              nfp |-> 1]

\* tcache.cached_transition once the store of the stage is resolved: a hit
\* returns the cached stage and promotes it, a miss runs the transition and
\* stores its result
cached_transition(mem, size, k, body) == _action_wrapper(mem, size, k, body)

\* JaCeLowered.compile through tcache.cached_transition
CompileTransition(l, args, nkwargs, collab) ==
    LET gc   == resolve_cache("JaceLowered", lowered[l].cache)
        st   == gc.stores[gc.id]
        k    == _make_call_description(l, args, nkwargs)
        b    == compile_body(l, args, collab)
        r    == cached_transition(st.memory, st.size, k,
                                  [err |-> b.err, obj |-> Len(compiled) + 1])
    IN
    /\ Len(gc.stores) <= MaxStores
    /\ r.outcome = "miss" => Len(compiled) < MaxCompiled
    /\ collab = "fails" => r.ran
    /\ caches' = gc.caches
    /\ stores' = [gc.stores EXCEPT ![gc.id].memory = r.mem]
    /\ lowered' = [lowered EXCEPT ![l].cache = gc.id,
                                   ![l].sdfg = IF r.ran THEN b.sdfg ELSE @]
    /\ compiled' = IF r.outcome = "miss" THEN Append(compiled, b.obj) ELSE compiled
    /\ ret' = [op |-> "compile", stage |-> l, args |-> args, nkwargs |-> nkwargs,
               outcome |-> r.outcome, ran |-> r.ran, result |-> r.result, err |-> r.err,
               kind |-> "JaceLowered", size |-> 0, nfp |-> k.nfp, tracing |-> FALSE]
    /\ UNCHANGED <<wrapped, active_options, handed>>
    /\ UNCHANGED <<storeVars, extVars>>

\* the updates of the global option set
ActiveUpdates == { << <<"simplify", FALSE>> >>, << <<"simplify", TRUE>> >> }

\* the positional argument lists of compile()
ActiveArgLists ==
    { <<>>, << CNone >>, << CDict(<< <<"simplify", FALSE>> >>) >>,
      << CDict(<< <<"simplify", TRUE>> >>) >>, << COther >> }

NextActive ==
    \/ \E args \in CompileLowerArgLists : Lower(1, args, 0, "ok")
    \/ \E d \in ActiveUpdates : UpdateActiveCompilerOptions(d)
    \/ \E l \in 1..Len(lowered), args \in ActiveArgLists, collab \in Collaborators :
          CompileTransition(l, args, 0, collab)

SpecActive == Init /\ [][NextActive]_vars

\* the entries that the store of the Lowered stage l holds for l
DescribedEntries(l) ==
    IF lowered[l].cache = 0 THEN {}
    ELSE LET m == stores[lowered[l].cache].memory
         IN  {m[i] : i \in {j \in 1..Len(m) : m[j].key.stage_id = l}}

\* the finalized options of the call recorded in `r`, for the global set G
Finalized(r, G) ==
    PairSet(DictMerge(G, IF Len(r.args) = 1 /\ r.args[1].tag = "dict"
                         THEN r.args[1].d ELSE <<>>))

ModifyIR(l) ==
    /\ lowered' = [lowered EXCEPT ![l].sdfg.edits = 1 - @]
    /\ ret' = [NoRet EXCEPT !.op = "modify", !.stage = l, !.outcome = "returned"]
    /\ UNCHANGED <<caches, stores, wrapped, compiled, active_options, handed>>
    /\ UNCHANGED <<storeVars, extVars>>

\* the positional argument lists of compile()
IRArgLists == { <<>>, << CDict(<<>>) >> }

NextIR ==
    \/ \E args \in CompileLowerArgLists : Lower(1, args, 0, "ok")
    \/ \E l \in 1..Len(lowered), args \in IRArgLists, collab \in Collaborators :
          Compile(l, args, 0, collab)
    \/ \E l \in 1..Len(lowered) : ModifyIR(l)

SpecIR == Init /\ [][NextIR]_vars

\* C32: a successful compile() leaves in the store an entry whose key holds
\* the identity of the stage's SDFG and the structural hash the SDFG has at
\* the time of the call, and it returns a Compiled stage that was built
\* from the SDFG in its current structure: an entry made before the SDFG
\* was modified in place is not returned, and when every entry of the stage
\* was made from another structure the call is a miss that runs the body.
C32_KeyHoldsStructuralHash ==
    [][(ret'.op = "compile" /\ Succeeded(ret')) =>
          LET l == ret'.stage
              m == stores'[lowered'[l].cache].memory
          IN
          /\ \E i \in 1..Len(m) :
                /\ m[i].val = ret'.result
                /\ m[i].key.sdfg = l
                /\ m[i].key.sdfg_hash = hash_sdfg(lowered[l].sdfg)
          /\ compiled'[ret'.result].csdfg.sdfg.edits = lowered[l].sdfg.edits
          /\ \A e \in EntriesOf(l) :
                compiled[e.val].csdfg.sdfg.edits # lowered[l].sdfg.edits =>
                   ret'.result # e.val
          /\ (\A e \in EntriesOf(l) :
                compiled[e.val].csdfg.sdfg.edits # lowered[l].sdfg.edits) =>
                   ret'.outcome = "miss" /\ ret'.ran]_vars

\* compile() was called, the SDFG was modified, and compile() with the same
\* options was a miss that made a second Compiled stage
C32_Witness ==
    /\ ret.op = "compile" /\ ret.outcome = "miss" /\ ret.result = 2
    /\ compiled[1].by = compiled[2].by
    /\ compiled[1].csdfg.sdfg.edits # compiled[2].csdfg.sdfg.edits
    /\ Cardinality(EntriesOf(ret.stage)) = 2

\* the entries of the store that the registry C holds for the stage kind,
\* for the stores S; none when the registry holds no store for the kind
RegistryMemory(C, S, kind) == IF C[kind] = 0 THEN <<>> ELSE S[C[kind]].memory

\* C33: in a lower() or compile() call whose key can be built, the body of
\* the transition runs if and only if the store of the stage's kind does
\* not hold the key when the call starts (the registry holding no store
\* for the kind after a reset), and after a successful call that store
\* holds the key as its most recently used entry.
C33_BodyRunsIffKeyAbsent ==
    [][(IsCall(ret') /\ RetKey(ret', wrapped, lowered).err = None) =>
          LET k == RetKey(ret', wrapped, lowered).key IN
          /\ ret'.ran <=> ~has(RegistryMemory(caches, stores, ret'.kind), k)
          /\ Succeeded(ret') =>
                LET m == RegistryMemory(caches', stores', ret'.kind) IN
                /\ Len(m) > 0
                /\ m[Len(m)].key = k]_vars

\* the stores that belong to the Wrapped stages: the one in the registry
\* and the ones that Wrapped stages hold
WrappedStores ==
    ({caches["JaceWrapped"]} \cup {wrapped[w].cache : w \in 1..Len(wrapped)}) \ {0}

\* the stores that belong to the Lowered stages
LoweredStores ==
    ({caches["JaceLowered"]} \cup {lowered[l].cache : l \in 1..Len(lowered)}) \ {0}

\* C34: no store belongs to stages of both kinds; lower() leaves every
\* store of the Lowered stages as it is, entries and order, and compile()
\* leaves every store of the Wrapped stages as it is.
C34_StoresOfKindsIndependent ==
    /\ [](WrappedStores \cap LoweredStores = {})
    /\ [][ret'.op = "lower" => \A id \in LoweredStores : stores'[id] = stores[id]]_vars
    /\ [][ret'.op = "compile" => \A id \in WrappedStores : stores'[id] = stores[id]]_vars

\* a lower() call was served from a store of the Wrapped stages while a
\* store of the Lowered stages held an entry
C34_Witness ==
    /\ ret.op = "lower" /\ ret.outcome = "hit"
    /\ \E id \in WrappedStores : stores[id].memory # <<>>
    /\ \E id \in LoweredStores : stores[id].memory # <<>>

(***************************************************************************)
(* SpecRestore: the option functions, with a caller that passes the        *)
(* mapping it was handed back to update_active_compiler_options.           *)
(***************************************************************************)
\* update_active_compiler_options(previous), `previous` being the mapping
\* that the last call handed out
UpdateWithReturned ==
    /\ handed.id # None
    /\ UpdateActiveCompilerOptions(handed.d)

NextRestore ==
    \/ \E d \in UpdateDicts : UpdateActiveCompilerOptions(d)
    \/ UpdateWithReturned
    \/ GetActiveCompilerOptions
    \/ \E name \in OptionNames, value \in BOOLEAN : MutateReturned(name, value)

SpecRestore == Init /\ [][NextRestore]_vars

RaceKey == StoreKeys[1]

\* the entries of other keys that the store holds when the callers arrive
Prefill(n) == [i \in 1..n |-> [key |-> StoreKeys[i + 1], val |-> "v0"]]

\* the stage that the body of caller t builds
BuiltBy(t) == IF t = 1 THEN "v1" ELSE "v2"

InitRace ==
    /\ _size \in 1..MaxSize
    /\ \E n \in 0..(Len(StoreKeys) - 1) : n <= _size /\ _memory = Prefill(n)
    /\ sret = NoSret
    /\ lru = <<>>
    /\ scen = -1
    /\ ins = InsOff
    /\ InitPipe

\* `if cache.has(key):`
CallerHas(t) ==
    /\ callers[t].pc = "idle"
    /\ callers' = [callers EXCEPT ![t].pc = IF has_call(_memory, RaceKey).flag
                                            THEN "get" ELSE "action"]
    /\ _memory' = has_call(_memory, RaceKey).mem
    /\ UNCHANGED <<_size, sret, lru, scen, ins>>
    /\ UNCHANGED pipeVars
    /\ UNCHANGED <<_PRIMITIVE_TRANSLATORS_REGISTRY, pt_held, ctor_held>>

\* `return cache.get(key)`
CallerGet(t) ==
    LET r == get(_memory, RaceKey) IN
    /\ callers[t].pc = "get"
    /\ callers' = [callers EXCEPT ![t].pc = "done", ![t].result = r.val, ![t].err = r.err]
    /\ _memory' = r.mem
    /\ UNCHANGED <<_size, sret, lru, scen, ins>>
    /\ UNCHANGED pipeVars
    /\ UNCHANGED <<_PRIMITIVE_TRANSLATORS_REGISTRY, pt_held, ctor_held>>

\* `next_stage = action(self, *args, **kwargs)`
CallerAction(t, collab) ==
    /\ callers[t].pc = "action"
    /\ callers' = IF collab = "fails"
                  THEN [callers EXCEPT ![t].pc = "done", ![t].err = "TranslationError",
                                       ![t].ran = TRUE]
                  ELSE [callers EXCEPT ![t].pc = "add", ![t].next_stage = BuiltBy(t),
                                       ![t].ran = TRUE]
    /\ UNCHANGED storeVars
    /\ UNCHANGED pipeVars
    /\ UNCHANGED <<_PRIMITIVE_TRANSLATORS_REGISTRY, pt_held, ctor_held>>

\* `cache.add(key, next_stage)` and `return next_stage`
CallerAdd(t) ==
    /\ callers[t].pc = "add"
    /\ _memory' = add(_memory, _size, RaceKey, callers[t].next_stage)
    /\ callers' = [callers EXCEPT ![t].pc = "done", ![t].result = callers[t].next_stage]
    /\ UNCHANGED <<_size, sret, lru, scen, ins>>
    /\ UNCHANGED pipeVars
    /\ UNCHANGED <<_PRIMITIVE_TRANSLATORS_REGISTRY, pt_held, ctor_held>>

NextRace ==
    \/ \E t \in Callers : CallerHas(t)
    \/ \E t \in Callers : CallerGet(t)
    \/ \E t \in Callers, collab \in Collaborators : CallerAction(t, collab)
    \/ \E t \in Callers : CallerAdd(t)

SpecRace == InitRace /\ [][NextRace]_vars

\* the caller has returned from the wrapper with a stage
Returned(t) == callers[t].pc = "done" /\ callers[t].err = None

\* no key has two entries in the store
OneEntryPerKey ==
    \A i, j \in 1..Len(_memory) : _memory[i].key = _memory[j].key => i = j

PrimitiveNames == {"add", "mul"}

PrimitiveTranslators == {"t1", "t2"}

\* the mappings a caller builds to pass them as `new_translators`
TranslatorDicts == { <<>>, << <<"add", "t2">> >>, << <<"mul", "t1">>, <<"add", "t1">> >> }

\* variant: a registered name is replaced without `overwrite`
register_primitive_translator_replace(reg, primitive, primitive_translator, overwrite) ==
    [err |-> None, registry |-> DictSet(reg, primitive, primitive_translator)]

\* register_primitive_translator(primitive_translator, overwrite) for a
\* translator of `primitive`, on the registry content `reg`:
\* result [err, registry]
register_primitive_translator(reg, primitive, primitive_translator, overwrite) ==
    IF DictHas(reg, primitive) /\ ~overwrite
    THEN [err |-> "ValueError", registry |-> reg]
    ELSE [err |-> None, registry |-> DictSet(reg, primitive, primitive_translator)]

\* get_regsitered_primitive_translators: `.copy()` of the registry
get_regsitered_primitive_translators ==
    [id |-> "own", d |-> _PRIMITIVE_TRANSLATORS_REGISTRY]

\* a mapping that a caller still holds after the global name was bound to
\* another dict: an object that was the registry is an object of the caller
Detached(o) == IF o.id = "registry" THEN [o EXCEPT !.id = "own"] ELSE o

\* variant: the global name is bound to the mapping that was passed
set_active_primitive_translators_to_bind(new_translators) ==
    [previous |-> [id |-> "own", d |-> _PRIMITIVE_TRANSLATORS_REGISTRY],
     registry |-> new_translators.d,
     new      |-> [new_translators EXCEPT !.id = "registry"]]

\* set_active_primitive_translators_to(new_translators): result
\* [previous, registry, new]: the object returned, which is the dict that was
\* the registry and is the registry no longer; the content of the dict that
\* the global name is bound to, `dict(new_translators)`; and the object of
\* the caller
set_active_primitive_translators_to(new_translators) ==
    [previous |-> [id |-> "own", d |-> _PRIMITIVE_TRANSLATORS_REGISTRY],
     registry |-> new_translators.d,
     new      |-> Detached(new_translators)]

RegisterPrimitiveTranslator(primitive, primitive_translator, overwrite) ==
    LET r == register_primitive_translator(_PRIMITIVE_TRANSLATORS_REGISTRY, primitive,
                                           primitive_translator, overwrite)
    IN
    /\ _PRIMITIVE_TRANSLATORS_REGISTRY' = r.registry
    /\ pt_held' = [new |-> IF pt_held.new.id = "registry"
                           THEN [pt_held.new EXCEPT !.d = r.registry] ELSE pt_held.new,
                   ret |-> IF pt_held.ret.id = "registry"
                           THEN [pt_held.ret EXCEPT !.d = r.registry] ELSE pt_held.ret]
    /\ ret' = [NoRet EXCEPT !.op = "register",
                            !.args = << [primitive |-> primitive,
                                         translator |-> primitive_translator,
                                         overwrite |-> overwrite] >>,
                            !.outcome = IF r.err = None THEN "returned" ELSE "error",
                            !.err = r.err]
    /\ wrapped' = [w \in 1..Len(wrapped) |->
                      IF wrapped[w].pt_alias = "registry"
                      THEN [wrapped[w] EXCEPT !.primitive_translators = r.registry]
                      ELSE wrapped[w]]
    /\ UNCHANGED <<callers, ctor_held>>
    /\ UNCHANGED <<caches, stores, lowered, compiled, active_options, handed>>
    /\ UNCHANGED storeVars

GetRegisteredPrimitiveTranslators ==
    /\ pt_held' = [pt_held EXCEPT !.ret = get_regsitered_primitive_translators]
    /\ ret' = [NoRet EXCEPT !.op = "get_registered", !.outcome = "returned"]
    /\ UNCHANGED <<callers, ctor_held, _PRIMITIVE_TRANSLATORS_REGISTRY>>
    /\ UNCHANGED <<caches, stores, wrapped, lowered, compiled, active_options, handed>>
    /\ UNCHANGED storeVars

\* set_active_primitive_translators_to(new_translators); the caller keeps
\* the mapping it passed and the mapping it is returned
SetActivePrimitiveTranslatorsTo(new_translators) ==
    LET r == set_active_primitive_translators_to(new_translators) IN
    /\ new_translators.id # None
    /\ _PRIMITIVE_TRANSLATORS_REGISTRY' = r.registry
    /\ pt_held' = [new |-> r.new, ret |-> r.previous]
    /\ ret' = [NoRet EXCEPT !.op = "set_active", !.outcome = "returned"]
    /\ UNCHANGED <<callers, ctor_held>>
    /\ UNCHANGED <<caches, stores, wrapped, lowered, compiled, active_options, handed>>
    /\ UNCHANGED storeVars

\* the caller assigns to an item of a mapping it holds: the object changes,
\* and with it the registry if that is the same object
MutateHeldTranslators(which, primitive, primitive_translator) ==
    LET o == IF which = "new" THEN pt_held.new ELSE pt_held.ret
        d == DictSet(o.d, primitive, primitive_translator)
    IN
    /\ o.id # None
    /\ _PRIMITIVE_TRANSLATORS_REGISTRY' =
          IF o.id = "registry" THEN d ELSE _PRIMITIVE_TRANSLATORS_REGISTRY
    /\ pt_held' = [new |-> IF which = "new" \/ (o.id = "registry" /\ pt_held.new.id = "registry")
                           THEN [pt_held.new EXCEPT !.d = d] ELSE pt_held.new,
                   ret |-> IF which = "ret" \/ (o.id = "registry" /\ pt_held.ret.id = "registry")
                           THEN [pt_held.ret EXCEPT !.d = d] ELSE pt_held.ret]
    /\ ret' = [NoRet EXCEPT !.op = "mutate_translators", !.kind = which,
                            !.outcome = "returned"]
    /\ UNCHANGED <<callers, ctor_held>>
    /\ UNCHANGED <<caches, stores, wrapped, lowered, compiled, active_options, handed>>
    /\ UNCHANGED storeVars

NextTranslators ==
    \/ \E primitive \in PrimitiveNames, primitive_translator \in PrimitiveTranslators,
          overwrite \in BOOLEAN :
          RegisterPrimitiveTranslator(primitive, primitive_translator, overwrite)
    \/ GetRegisteredPrimitiveTranslators
    \/ \E d \in TranslatorDicts : SetActivePrimitiveTranslatorsTo([id |-> "own", d |-> d])
    \/ SetActivePrimitiveTranslatorsTo(pt_held.ret)
    \/ \E which \in {"new", "ret"}, primitive \in PrimitiveNames,
          primitive_translator \in PrimitiveTranslators :
          MutateHeldTranslators(which, primitive, primitive_translator)

SpecTranslators == Init /\ [][NextTranslators]_vars

\* the mapping has one pair for every name it holds
NoDuplicateNames(d) == \A i, j \in 1..Len(d) : d[i][1] = d[j][1] => i = j

\* C37: register_primitive_translator for a name that the registry holds,
\* without overwrite, fails with ValueError and leaves the registry as it
\* is; with overwrite, or for a name the registry does not hold, the
\* registry afterwards maps the name to the given translator and holds
\* every other name as before.
C37_RegisterChecksOverwrite ==
    [][ret'.op = "register" =>
          LET a == ret'.args[1]
              R == _PRIMITIVE_TRANSLATORS_REGISTRY
          IN
          IF DictHas(R, a.primitive) /\ ~a.overwrite
          THEN /\ ret'.err = "ValueError"
               /\ _PRIMITIVE_TRANSLATORS_REGISTRY' = R
          ELSE /\ ret'.err = None
               /\ NoDuplicateNames(_PRIMITIVE_TRANSLATORS_REGISTRY')
               /\ DictHas(_PRIMITIVE_TRANSLATORS_REGISTRY', a.primitive)
               /\ DictGet(_PRIMITIVE_TRANSLATORS_REGISTRY', a.primitive) = a.translator
               /\ \A n \in PrimitiveNames \ {a.primitive} :
                     /\ DictHas(_PRIMITIVE_TRANSLATORS_REGISTRY', n) <=> DictHas(R, n)
                     /\ DictHas(R, n) =>
                           DictGet(_PRIMITIVE_TRANSLATORS_REGISTRY', n) = DictGet(R, n)]_vars

\* a registration without overwrite was rejected: the registry holds
\* another translator for the name, and a second name
C37_Witness ==
    /\ ret.op = "register" /\ ret.err = "ValueError"
    /\ ret.args[1].primitive = "add" /\ ret.args[1].translator = "t2"
    /\ DictGet(_PRIMITIVE_TRANSLATORS_REGISTRY, "add") = "t1"
    /\ DictHas(_PRIMITIVE_TRANSLATORS_REGISTRY, "mul")

\* C38: no mapping that a caller holds is the registry; an assignment to a
\* mapping that get_regsitered_primitive_translators or
\* set_active_primitive_translators_to returned, or that was passed to
\* set_active_primitive_translators_to, leaves the registry as it is; and
\* set_active_primitive_translators_to returns the content the registry
\* had before the call and leaves the registry with the content of the
\* mapping it was passed.
C38_RegistryDecoupled ==
    /\ [](pt_held.new.id # "registry" /\ pt_held.ret.id # "registry")
    /\ [][ret'.op = "mutate_translators" =>
            _PRIMITIVE_TRANSLATORS_REGISTRY' = _PRIMITIVE_TRANSLATORS_REGISTRY]_vars
    /\ [][ret'.op = "set_active" =>
            /\ pt_held'.ret.d = _PRIMITIVE_TRANSLATORS_REGISTRY
            /\ _PRIMITIVE_TRANSLATORS_REGISTRY' = pt_held'.new.d]_vars
    /\ [][ret'.op = "get_registered" =>
            pt_held'.ret.d = _PRIMITIVE_TRANSLATORS_REGISTRY]_vars

\* after set_active_primitive_translators_to the caller assigned to the
\* mapping it had passed: the mapping differs from the registry, which
\* holds what was passed, and the returned mapping holds the earlier state
C38_Witness ==
    /\ ret.op = "mutate_translators" /\ ret.kind = "new"
    /\ _PRIMITIVE_TRANSLATORS_REGISTRY = << <<"add", "t2">> >>
    /\ pt_held.new.d = << <<"add", "t1">> >>
    /\ pt_held.ret.d = << <<"mul", "t1">>, <<"add", "t1">> >>

(***************************************************************************)
(* SpecJit: Wrapped stages are constructed from mappings that the caller   *)
(* keeps and assigns to afterwards, and are lowered.                       *)
(***************************************************************************)
\* the mappings a caller passes as `jit_options`
JitOptionDicts == { <<>>, << <<"backend", "gpu">> >> }

\* the mapping a caller passes as `primitive_translators`: a dict of its
\* own, or the dict the global name is bound to
CtorTranslators(id) ==
    IF id = "registry" THEN [id |-> "registry", d |-> <<>>]
                       ELSE Own(<< <<"add", "t2">> >>)

\* the items of the mapping that was passed as `primitive_translators`
HeldTranslators ==
    IF ctor_held.primitive_translators.id = "registry"
    THEN _PRIMITIVE_TRANSLATORS_REGISTRY
    ELSE ctor_held.primitive_translators.d

InitJit ==
    /\ _size = 1
    /\ _memory = <<>>
    /\ sret = NoSret
    /\ lru = <<>>
    /\ scen = -1
    /\ ins = InsOff
    /\ caches = [k \in StageKinds |-> 0]
    /\ stores = <<>>
    /\ wrapped = <<>>
    /\ lowered = <<>>
    /\ compiled = <<>>
    /\ active_options = DEFAULT_OPTIMIZATIONS
    /\ handed = NoMapping
    /\ ret = NoRet
    /\ callers = [t \in Callers |-> NoCaller]
    /\ _PRIMITIVE_TRANSLATORS_REGISTRY = <<>>
    /\ pt_held = [new |-> NoMapping, ret |-> NoMapping]
    /\ ctor_held = NoCtor

\* JaceWrapped(fun, primitive_translators, jit_options); the caller keeps
\* the two mappings
Construct(primitive_translators, jit_options) ==
    LET w  == Len(wrapped) + 1
        pt == IF primitive_translators.id = "registry"
              THEN [primitive_translators EXCEPT !.d = _PRIMITIVE_TRANSLATORS_REGISTRY]
              ELSE primitive_translators
    IN
    /\ Len(wrapped) < MaxWrapped
    /\ wrapped' = Append(wrapped, JaceWrapped(WrappedFun(w), pt, jit_options))
    /\ ctor_held' = [stage |-> w,
                     primitive_translators |-> primitive_translators,
                     jit_options |-> jit_options,
                     at_call |-> [primitive_translators |-> pt.d,
                                  jit_options |-> jit_options.d]]
    /\ ret' = [NoRet EXCEPT !.op = "jit", !.stage = w, !.outcome = "returned"]
    /\ UNCHANGED <<callers, _PRIMITIVE_TRANSLATORS_REGISTRY, pt_held>>
    /\ UNCHANGED <<caches, stores, lowered, compiled, active_options, handed>>
    /\ UNCHANGED storeVars

\* the caller assigns to an item of the dict it passed as
\* `primitive_translators`: the object changes, and with it the mapping of
\* a stage that holds the same object
MutateCtorTranslators(primitive, primitive_translator) ==
    LET d == DictSet(ctor_held.primitive_translators.d, primitive, primitive_translator) IN
    /\ ctor_held.primitive_translators.id = "own"
    /\ ctor_held' = [ctor_held EXCEPT !.primitive_translators.d = d]
    /\ wrapped' = [w \in 1..Len(wrapped) |->
                      IF w = ctor_held.stage /\ wrapped[w].pt_alias = "arg"
                      THEN [wrapped[w] EXCEPT !.primitive_translators = d]
                      ELSE wrapped[w]]
    /\ ret' = [NoRet EXCEPT !.op = "mutate_ctor", !.kind = "primitive_translators",
                            !.stage = ctor_held.stage, !.outcome = "returned"]
    /\ UNCHANGED <<callers, _PRIMITIVE_TRANSLATORS_REGISTRY, pt_held>>
    /\ UNCHANGED <<caches, stores, lowered, compiled, active_options, handed>>
    /\ UNCHANGED storeVars

\* the caller assigns to an item of the dict it passed as `jit_options`
MutateCtorJitOptions(name, value) ==
    LET d == DictSet(ctor_held.jit_options.d, name, value) IN
    /\ ctor_held.jit_options.id = "own"
    /\ ctor_held' = [ctor_held EXCEPT !.jit_options.d = d]
    /\ wrapped' = [w \in 1..Len(wrapped) |->
                      IF w = ctor_held.stage /\ wrapped[w].jo_alias = "arg"
                      THEN [wrapped[w] EXCEPT !.jit_options = d]
                      ELSE wrapped[w]]
    /\ ret' = [NoRet EXCEPT !.op = "mutate_ctor", !.kind = "jit_options",
                            !.stage = ctor_held.stage, !.outcome = "returned"]
    /\ UNCHANGED <<callers, _PRIMITIVE_TRANSLATORS_REGISTRY, pt_held>>
    /\ UNCHANGED <<caches, stores, lowered, compiled, active_options, handed>>
    /\ UNCHANGED storeVars

NextJit ==
    \/ \E id \in {"own", "registry"}, d \in JitOptionDicts :
          Construct(CtorTranslators(id), Own(d))
    \/ MutateCtorTranslators("add", "t1")
    \/ MutateCtorJitOptions("backend", "gpu")
    \/ \E primitive_translator \in PrimitiveTranslators :
          RegisterPrimitiveTranslator("add", primitive_translator, TRUE)
    \/ \E w \in 1..Len(wrapped) : Lower(w, <<A1, B1>>, 0, "ok")

SpecJit == InitJit /\ [][NextJit]_vars

\* C39: a Wrapped stage holds the items that the mappings had when its
\* constructor was called, whatever the caller assigns to the mappings and
\* whatever is registered afterwards; no step changes a field of a stage
\* other than its cache handle; and a lowering that runs the body fails if
\* and only if the jit options of the stage are not empty, and otherwise
\* builds with the primitive translators of the stage.
C39_WrappedStageImmutable ==
    /\ [](ctor_held.stage # 0 =>
            /\ wrapped[ctor_held.stage].primitive_translators
                  = ctor_held.at_call.primitive_translators
            /\ wrapped[ctor_held.stage].jit_options = ctor_held.at_call.jit_options)
    /\ [][\A w \in 1..Len(wrapped) :
             wrapped'[w] = [wrapped[w] EXCEPT !.cache = wrapped'[w].cache]]_vars
    /\ [][(ret'.op = "lower" /\ ret'.ran) =>
             /\ ret'.err = "NotImplementedError" <=> wrapped[ret'.stage].jit_options # <<>>
             /\ ret'.err = None =>
                   lowered'[ret'.result].sdfg.translators
                      = wrapped[ret'.stage].primitive_translators]_vars

\* the body of lower ran without error for the stage constructed last,
\* after the caller assigned to both mappings it had passed: the Lowered
\* stage was built with the translators as they were passed
C39_Witness ==
    /\ ret.op = "lower" /\ ret.ran /\ ret.err = None
    /\ ret.stage = ctor_held.stage
    /\ ctor_held.jit_options.d = << <<"backend", "gpu">> >>
    /\ ctor_held.primitive_translators.d = << <<"add", "t1">> >>
    /\ lowered[ret.result].sdfg.translators = << <<"add", "t2">> >>

====
